---- MODULE Spec2Model ----
(***************************************************************************)
(* Time Lens: the selection-to-display pipeline.                           *)
(*                                                                         *)
(* The specifications share the module's variables:                        *)
(*   SpecSel          the two selection trackers (debounce, pointer-hold)  *)
(*   SpecPanel        the fixed-panel content script (content/index.ts)    *)
(*   SpecCache        SpecPanel with a snapshot delivered a second time    *)
(*   SpecTip          the hover-tooltip content script (part_003) with the *)
(*                    pointer, the page's events and the hover timers      *)
(*   SpecTipSettings  the hover-tooltip content script with its settings   *)
(*                    handlers and the settings store                      *)
(*   SpecTipZone      the hover-tooltip content script started over a      *)
(*                    store whose source zone may be unknown to Intl       *)
(*   SpecTipZoneChange  SpecTipZone while other contexts store settings  *)
(*   SpecTipFair      the tooltip, the pointer and the timers under the    *)
(*                    event loop's fairness                                *)
(*   SpecLife         the fixed-panel content script's start and stop,     *)
(*                    with several initialize() calls awaiting             *)
(*   SpecDrag         the panel's position: drag, clamp, persist           *)
(*   SpecFn           single calls of the pure functions (zone resolution, *)
(*                    timezone extraction, offsets, parsing, conversion,   *)
(*                    formatting, settings load and save, per-origin       *)
(*                    enablement)                                          *)
(* Strings that the code inspects character by character are sequences of  *)
(* one-character strings; instants are minutes.                            *)
(***************************************************************************)
EXTENDS Integers, Sequences, FiniteSets, TLC

VARIABLES
  \* ---- browser / environment
  selection,              \* what window.getSelection() currently returns
  \* ---- selection tracker, debounce variant (content/selection.ts)
  currentVersion,         \* let currentVersion
  debounceTimer,          \* NULL or the setTimeout it holds, as ms left
  \* ---- selection tracker, pointer-hold variant (tooltip.ts:321-451)
  phVersion,              \* let currentVersion of that module
  isPointerDown,
  pendingSelectionChange,
  tracking,               \* the trackers' document listeners are attached
  \* ---- observers' view of the trackers
  emitted,                \* what the debounce tracker passed to its callbacks
  phEmitted,              \* what the pointer-hold tracker passed to its callbacks
  \* ---- content script (content/index.ts; its tooltip variant, part_003)
  settings,               \* let settings
  currentSnapshot,        \* let currentSnapshot
  visible,                \* let visible (panel variant)
  lastParsedVersion,      \* parse cache: the success slot's version
  lastParseResult,        \*              the success slot's result
  lastParseFailureVersion,\*              the known-failure slot
  panel,                  \* the PanelController's closure state, or NULL
  parseAbortController,   \* 0 (null) or the current AbortController
  controllers,            \* the AbortControllers created and not aborted
  initialized,            \* let initialized
  \* ---- settings store (chrome.storage.sync) as the script sees it
  stored,                 \* the record under SETTINGS_KEY, or NULL
  notifications,          \* storage.onChanged events not yet delivered
  loads,                  \* initialize() calls awaiting loadSettings()
  \* ---- observation
  lastCall,               \* the last tryParse call, while nothing has changed the
                          \* settings or the snapshot since
  lastGood,               \* the last snapshot tryParse returned a result for
  state,                  \* TooltipState of the tooltip controller
  tooltip,                \* the tooltip component, or NULL
  hideTimers,             \* the component's pending hide timeouts (ms left)
  autoDismissTimer,       \* hover.ts: <<>> or <<ms left>>
  leaveTimer,             \* hover.ts: <<>> or <<ms left>>
  strayLeaveTimers,       \* leave timeouts still scheduled whose handle is lost
  userEngaged,            \* hover.ts
  pointers,               \* pointers inside the tooltip element
  listening,              \* the controller's storage listener is subscribed
  episode,                \* what has happened since the tooltip was last shown
  selectionChanges,       \* selectionchange events dispatched so far (tooltip build)
  \* ---- the panel's position (part_002:29-146)
  position,               \* let position of the panel, NULL while there is no panel
  isDragging,             \* let isDragging
  dragStart,              \* let dragStartX, dragStartY, dragStartRight, dragStartTop
  localStorage,           \* the page's localStorage: the item under
                          \* PANEL_POSITION_KEY and whether its quota is used up
  hosts,                  \* panel containers attached to the document
                          \* (part_002:87, part_002:353)
  \* ---- the parse library called on its own
  fnCall                  \* a function of the library, its arguments and, once
                          \* it has returned, its result

selVars == <<selection, currentVersion, debounceTimer, phVersion,
             isPointerDown, pendingSelectionChange, tracking, emitted, phEmitted>>

ctlVars == <<settings, currentSnapshot, visible, lastParsedVersion, lastParseResult,
             lastParseFailureVersion, panel, parseAbortController, controllers,
             initialized, stored, notifications, loads, lastCall, lastGood>>

tipVars == <<state, tooltip, hideTimers, autoDismissTimer, leaveTimer,
             strayLeaveTimers, userEngaged, pointers, listening, episode,
             selectionChanges>>

dragVars == <<position, isDragging, dragStart, localStorage>>

vars == <<selVars, ctlVars, tipVars, fnCall, dragVars, hosts>>

\* null and undefined: a record, so that it compares with the records it stands in for
NULL == [null |-> TRUE]

\* ---- bounds ------------------------------------------------------------
MaxVersion == 3
MaxQueue == 1
MaxLoads == 1
MaxPending == 2

\* ---- program constants --------------------------------------------------
MAX_TEXT_LENGTH == 200
DEBOUNCE_DELAY == 50

(***************************************************************************)
(* Strings                                                                 *)
(***************************************************************************)
IsSpace(c) == c \in {" ", "\t", "\n"}

RECURSIVE TrimStart(_)
TrimStart(s) ==
  IF s = <<>> THEN s
  ELSE IF IsSpace(Head(s)) THEN TrimStart(Tail(s)) ELSE s

RECURSIVE TrimEnd(_)
TrimEnd(s) ==
  IF s = <<>> THEN s
  ELSE IF IsSpace(s[Len(s)]) THEN TrimEnd(SubSeq(s, 1, Len(s) - 1)) ELSE s

\* String.prototype.trim
Trim(s) == TrimEnd(TrimStart(s))

\* String.prototype.slice(0, n)
Slice0(s, n) == IF Len(s) <= n THEN s ELSE SubSeq(s, 1, n)

\* n copies of the character c
RECURSIVE Repeat(_, _)
Repeat(c, n) == IF n = 0 THEN <<>> ELSE <<c>> \o Repeat(c, n - 1)

(***************************************************************************)
(* The page: the selections the browser can report.                        *)
(***************************************************************************)
TextEmpty == <<>>
TextBlank == <<" ", " ">>
TextNoDate == <<"a", "b", "c">>
TextPadded == <<" ", "3", "p", "m", " ">>
TextAbbrev == <<"3", "p", "m", " ", "P", "S", "T">>
TextLong == Repeat("x", MAX_TEXT_LENGTH + 1)

\* A Selection object: present = getSelection() is non-null and rangeCount > 0
Sel(present, collapsed, text, width, height) ==
  [present |-> present, collapsed |-> collapsed, text |-> text,
   width |-> width, height |-> height]

NoSelection == Sel(FALSE, TRUE, TextEmpty, 0, 0)

Selections ==
  { NoSelection,
    Sel(TRUE, TRUE, TextNoDate, 0, 2),     \* a caret: collapsed
    Sel(TRUE, FALSE, TextBlank, 7, 2),     \* only white space
    Sel(TRUE, FALSE, TextNoDate, 0, 0),    \* no bounding box
    Sel(TRUE, FALSE, TextNoDate, 7, 2),
    Sel(TRUE, FALSE, TextPadded, 7, 2),
    Sel(TRUE, FALSE, TextAbbrev, 0, 2),
    Sel(TRUE, FALSE, TextLong, 7, 0) }

CurrentOrigin == "https://example.org"

(***************************************************************************)
(* createSnapshot: the snapshot the tracker builds from the selection (or  *)
(* NULL) and the module's version counter after the call.  anchored = the  *)
(* variant that reads the bounding rect; v = the counter before the call.  *)
(***************************************************************************)
\* variant: the text is tested before it is trimmed
SnapshotIsNull_Untrimmed(sel, anchored) ==
  \/ ~sel.present
  \/ sel.collapsed
  \/ sel.text = <<>>
  \/ anchored /\ sel.width = 0 /\ sel.height = 0

SnapshotIsNull(sel, anchored) ==
  \/ ~sel.present
  \/ sel.collapsed
  \/ Trim(sel.text) = <<>>
  \/ anchored /\ sel.width = 0 /\ sel.height = 0

createSnapshot_NoIncrement(sel, anchored, v) ==
  IF SnapshotIsNull(sel, anchored)
  THEN [snap |-> NULL, version |-> v]
  ELSE [snap |-> [version |-> v,
                  text |-> Slice0(Trim(sel.text), MAX_TEXT_LENGTH),
                  origin |-> CurrentOrigin],
        version |-> v]

createSnapshot(sel, anchored, v) ==
  IF SnapshotIsNull(sel, anchored)
  THEN [snap |-> NULL, version |-> v]
  ELSE [snap |-> [version |-> v + 1,
                  text |-> Slice0(Trim(sel.text), MAX_TEXT_LENGTH),
                  origin |-> CurrentOrigin],
        version |-> v + 1]

\* the version counter is capped: a non-null snapshot needs room below the bound
CanSnapshot(sel, anchored, v) == SnapshotIsNull(sel, anchored) \/ v < MaxVersion

\* callbacks.forEach(callback => callback(snapshot)), as the observers see it:
\* tick flips on every emission, top is the highest version emitted so far
Emit(log, snap) ==
  [tick |-> 1 - log.tick,
   snap |-> snap,
   top |-> IF snap /= NULL /\ snap.version > log.top THEN snap.version ELSE log.top]

NoEmission == [tick |-> 0, snap |-> NULL, top |-> 0]

(***************************************************************************)
(* Selection tracker, debounce variant (content/selection.ts)              *)
(***************************************************************************)
\* the timeouts of earlier notifications that are still pending although
\* debounceTimer no longer holds their handle
Strays(timer) == IF timer = NULL THEN {} ELSE timer.strays

\* setTimeout(callback, DEBOUNCE_DELAY), its handle assigned to debounceTimer
DebounceTimeout(strays) ==
  [pending |-> TRUE, left |-> DEBOUNCE_DELAY, strays |-> strays]

\* variant: the pending timeout is not cleared before the next one is set
DebounceHandleSelectionChange_NoClear ==
  debounceTimer' =
    IF tracking
    THEN DebounceTimeout(Strays(debounceTimer)
                         \cup (IF debounceTimer /= NULL /\ debounceTimer.pending
                               THEN {debounceTimer.left} ELSE {}))
    ELSE debounceTimer

\* variant: a pending timeout is left to run, the notification sets none
DebounceHandleSelectionChange_NoRestart ==
  debounceTimer' =
    IF tracking /\ ~(debounceTimer /= NULL /\ debounceTimer.pending)
    THEN DebounceTimeout(Strays(debounceTimer))
    ELSE debounceTimer

\* handleSelectionChange (selection.ts:69-88): clearTimeout, then setTimeout
DebounceHandleSelectionChange ==
  debounceTimer' = IF tracking THEN DebounceTimeout(Strays(debounceTimer))
                   ELSE debounceTimer

\* processSelection of the pointer-hold variant
ProcessSelection(sel) ==
  LET r == createSnapshot(sel, FALSE, phVersion) IN
  /\ CanSnapshot(sel, FALSE, phVersion)
  /\ phVersion' = r.version
  /\ phEmitted' = Emit(phEmitted, r.snap)
  /\ pendingSelectionChange' = FALSE

\* variant: every notification is processed at once, button held or not
PointerHoldHandleSelectionChange_Immediate(sel) ==
  IF ~tracking
  THEN UNCHANGED <<phVersion, phEmitted, pendingSelectionChange>>
  ELSE ProcessSelection(sel)

PointerHoldHandleSelectionChange(sel) ==
  IF ~tracking
  THEN UNCHANGED <<phVersion, phEmitted, pendingSelectionChange>>
  ELSE IF isPointerDown
       THEN /\ pendingSelectionChange' = TRUE
            /\ UNCHANGED <<phVersion, phEmitted>>
       ELSE ProcessSelection(sel)

\* the user changes the selection; the browser dispatches selectionchange
\* to the listeners of both tracker variants
SelectionChange(sel) ==
  /\ selection' = sel
  /\ DebounceHandleSelectionChange
  /\ PointerHoldHandleSelectionChange(sel)
  /\ UNCHANGED <<currentVersion, isPointerDown, tracking, emitted>>
  /\ UNCHANGED <<ctlVars, tipVars>>

\* the debounce timeout fires: createSnapshot, then every callback
DebounceFire ==
  LET r == createSnapshot(selection, TRUE, currentVersion) IN
  /\ debounceTimer /= NULL
  /\ debounceTimer.pending
  /\ debounceTimer.left = 0
  /\ CanSnapshot(selection, TRUE, currentVersion)
  /\ debounceTimer' = [debounceTimer EXCEPT !.pending = FALSE, !.left = 0]
  /\ currentVersion' = r.version
  /\ emitted' = Emit(emitted, r.snap)
  /\ UNCHANGED <<selection, phVersion, isPointerDown,
                 pendingSelectionChange, tracking, phEmitted>>
  /\ UNCHANGED <<ctlVars, tipVars>>

(***************************************************************************)
(* Selection tracker, pointer-hold variant (tooltip.ts:321-451)            *)
(***************************************************************************)
handlePointerDown ==
  /\ tracking
  /\ isPointerDown' = TRUE
  /\ pendingSelectionChange' = FALSE
  /\ UNCHANGED <<selection, currentVersion, debounceTimer, phVersion,
                 tracking, emitted, phEmitted>>
  /\ UNCHANGED <<ctlVars, tipVars>>

handlePointerUp ==
  /\ tracking
  /\ isPointerDown' = FALSE
  /\ IF pendingSelectionChange
     THEN ProcessSelection(selection)
     ELSE UNCHANGED <<phVersion, phEmitted, pendingSelectionChange>>
  /\ UNCHANGED <<selection, currentVersion, debounceTimer, tracking, emitted>>
  /\ UNCHANGED <<ctlVars, tipVars>>

startSelectionTracking ==
  /\ ~tracking
  /\ tracking' = TRUE
  /\ UNCHANGED <<selection, currentVersion, debounceTimer, phVersion,
                 isPointerDown, pendingSelectionChange, emitted, phEmitted>>
  /\ UNCHANGED <<ctlVars, tipVars>>

\* variant: the listeners are removed, the pending timeout is left to run
stopSelectionTracking_KeepTimer ==
  /\ tracking
  /\ tracking' = FALSE
  /\ isPointerDown' = FALSE
  /\ pendingSelectionChange' = FALSE
  /\ UNCHANGED <<selection, currentVersion, debounceTimer, phVersion,
                 emitted, phEmitted>>
  /\ UNCHANGED <<ctlVars, tipVars>>

stopSelectionTracking ==
  /\ tracking
  /\ tracking' = FALSE
  /\ debounceTimer' = NULL
  /\ isPointerDown' = FALSE
  /\ pendingSelectionChange' = FALSE
  /\ UNCHANGED <<selection, currentVersion, phVersion, emitted, phEmitted>>
  /\ UNCHANGED <<ctlVars, tipVars>>

EpisodeOff == [stage |-> "off", t |-> 0]

\* the tooltip controller and the hover module before anything has run
\* none of the library functions is being called on its own
NoCall == [fn |-> "none", args |-> <<>>, done |-> FALSE, ret |-> <<>>]

\* no panel has been created, nothing is kept under PANEL_POSITION_KEY
NoItem == [present |-> FALSE, item |-> <<>>, full |-> FALSE]

NoDragStart == [x |-> 0, y |-> 0, right |-> 0, top |-> 0]

DragIdle ==
  /\ position = NULL
  /\ isDragging = FALSE
  /\ dragStart = NoDragStart
  /\ localStorage = NoItem

TipIdle ==
  /\ state = "IDLE"
  /\ tooltip = NULL
  /\ hideTimers = {}
  /\ autoDismissTimer = <<>>
  /\ leaveTimer = <<>>
  /\ strayLeaveTimers = {}
  /\ userEngaged = FALSE
  /\ pointers = 0
  /\ listening = FALSE
  /\ episode = EpisodeOff
  /\ selectionChanges = 0

(***************************************************************************)
(* Time.  A timeout is kept as the ms left until it is due; time passes by *)
(* one of Delays or up to the next timeout, and never past a timeout that  *)
(* is due: its callback runs first.                                        *)
(***************************************************************************)
Delays == {100, 1000, 4000}

Left(timer) == IF timer = <<>> THEN {} ELSE {timer[1]}

PendingTimers ==
  UNION { IF debounceTimer /= NULL /\ debounceTimer.pending
          THEN {debounceTimer.left} ELSE {},
          Strays(debounceTimer),
          Left(autoDismissTimer), Left(leaveTimer), strayLeaveTimers, hideTimers }

Min(S) == CHOOSE x \in S : \A y \in S : x <= y

After(timer, d) == IF timer = <<>> THEN timer ELSE <<timer[1] - d>>

Tick(d) ==
  /\ d > 0
  /\ \A left \in PendingTimers : d <= left
  /\ debounceTimer' = IF debounceTimer /= NULL /\ debounceTimer.pending
                      THEN [debounceTimer EXCEPT !.left = @ - d,
                                                 !.strays = {left - d : left \in @}]
                      ELSE debounceTimer
  /\ autoDismissTimer' = After(autoDismissTimer, d)
  /\ leaveTimer' = After(leaveTimer, d)
  /\ strayLeaveTimers' = {left - d : left \in strayLeaveTimers}
  /\ hideTimers' = {left - d : left \in hideTimers}

\* time passes for the tracker on its own
\* a gap shorter than the debounce delay, between two notifications of a burst
BurstGap == 20

SelAdvance ==
  /\ \E d \in {BurstGap} \cup Delays \cup PendingTimers : Tick(d)
  /\ UNCHANGED <<selection, currentVersion, phVersion, isPointerDown,
                 pendingSelectionChange, tracking, emitted, phEmitted>>
  /\ UNCHANGED <<ctlVars, state, tooltip, userEngaged, pointers, listening,
                 episode, selectionChanges>>

\* the content script before its module body has run
CtlIdle ==
  /\ settings = NULL
  /\ currentSnapshot = NULL
  /\ visible = FALSE
  /\ lastParsedVersion = -1
  /\ lastParseResult = NULL
  /\ lastParseFailureVersion = -1
  /\ panel = NULL
  /\ parseAbortController = 0
  /\ controllers = {}
  /\ initialized = FALSE
  /\ stored = NULL
  /\ notifications = <<>>
  /\ loads = 0
  /\ lastCall = NULL
  /\ lastGood = NULL

SelInit ==
  /\ fnCall = NoCall
  /\ DragIdle
  /\ hosts = 0
  /\ CtlIdle
  /\ TipIdle
  /\ selection = NoSelection
  /\ currentVersion = 0
  /\ debounceTimer = NULL
  /\ phVersion = 0
  /\ isPointerDown = FALSE
  /\ pendingSelectionChange = FALSE
  /\ tracking = TRUE
  /\ emitted = NoEmission
  /\ phEmitted = NoEmission

SelNext ==
  \/ /\ \E sel \in Selections : SelectionChange(sel)
     /\ UNCHANGED <<fnCall, dragVars, hosts>>
  \/ /\ DebounceFire
     /\ UNCHANGED <<fnCall, dragVars, hosts>>
  \/ /\ handlePointerDown
     /\ UNCHANGED <<fnCall, dragVars, hosts>>
  \/ /\ handlePointerUp
     /\ UNCHANGED <<fnCall, dragVars, hosts>>
  \/ /\ startSelectionTracking
     /\ UNCHANGED <<fnCall, dragVars, hosts>>
  \/ /\ stopSelectionTracking
     /\ UNCHANGED <<fnCall, dragVars, hosts>>
  \/ /\ SelAdvance
     /\ UNCHANGED <<fnCall, dragVars, hosts>>

SpecSel == SelInit /\ [][SelNext]_vars

(***************************************************************************)
(* Zones and instants.  A zone identifier is a string of the program, so a *)
(* sequence of characters; an instant is a number of minutes (UTC) and a   *)
(* DateTime is an instant read in a zone.                                  *)
(***************************************************************************)
ZoneLocal == <<"l", "o", "c", "a", "l">>
ZoneUTC == <<"U", "T", "C">>
ZoneTokyo == <<"A", "s", "i", "a", "/", "T", "o", "k", "y", "o">>
ZoneLA == <<"A", "m", "e", "r", "i", "c", "a", "/", "L", "o", "s", "_",
            "A", "n", "g", "e", "l", "e", "s">>

\* a zone name the runtime's Intl does not know
ZoneUnknown == <<"N", "o", "/", "Z", "o", "n", "e">>

\* the machine's own zone
SystemZone == ZoneTokyo

IsDigit(c) == c \in {"0", "1", "2", "3", "4", "5", "6", "7", "8", "9"}

DigitValue(c) ==
  CASE c = "0" -> 0 [] c = "1" -> 1 [] c = "2" -> 2 [] c = "3" -> 3
    [] c = "4" -> 4 [] c = "5" -> 5 [] c = "6" -> 6 [] c = "7" -> 7
    [] c = "8" -> 8 [] c = "9" -> 9

DigitChar(n) ==
  CASE n = 0 -> "0" [] n = 1 -> "1" [] n = 2 -> "2" [] n = 3 -> "3"
    [] n = 4 -> "4" [] n = 5 -> "5" [] n = 6 -> "6" [] n = 7 -> "7"
    [] n = 8 -> "8" [] n = 9 -> "9"

\* Number.prototype.toString for a natural number
RECURSIVE NatToString(_)
NatToString(n) ==
  IF n < 10 THEN <<DigitChar(n)>>
  ELSE NatToString(n \div 10) \o <<DigitChar(n % 10)>>

\* String.prototype.padStart(2, '0')
PadStart2(s) == IF Len(s) >= 2 THEN s ELSE Repeat("0", 2 - Len(s)) \o s

Abs(n) == IF n < 0 THEN -n ELSE n

\* minutesToOffset (content/parse/timezone.ts, part_000): 330 -> "+05:30"
OffsetString(sign, hours, mins) ==
  <<sign>> \o PadStart2(NatToString(hours)) \o <<":">> \o PadStart2(NatToString(mins))

\* variant: zero minutes take the minus sign
minutesToOffset_StrictSign(minutes) ==
  OffsetString(IF minutes > 0 THEN "+" ELSE "-",
               Abs(minutes) \div 60, Abs(minutes) % 60)

minutesToOffset(minutes) ==
  OffsetString(IF minutes >= 0 THEN "+" ELSE "-",
               Abs(minutes) \div 60, Abs(minutes) % 60)

\* isOffset: /^[+-]\d{2}:\d{2}$/
isOffset(zone) ==
  /\ Len(zone) = 6
  /\ zone[1] \in {"+", "-"}
  /\ IsDigit(zone[2]) /\ IsDigit(zone[3])
  /\ zone[4] = ":"
  /\ IsDigit(zone[5]) /\ IsDigit(zone[6])

\* the minutes of a +HH:MM string
SignedMinutes(sign, m) == IF sign = "-" THEN -m ELSE m

FixedOffsetMinutes(o) ==
  SignedMinutes(o[1], (DigitValue(o[2]) * 10 + DigitValue(o[3])) * 60
                      + DigitValue(o[5]) * 10 + DigitValue(o[6]))

\* what Luxon makes of a zone name: the zone's offset in minutes, <<>> when
\* the name denotes no zone.  `UTC+HH:MM` is a fixed-offset zone.
ZoneOffset(zone) ==
  CASE zone = ZoneUTC \/ zone = <<"u", "t", "c">> -> <<0>>
    [] zone = ZoneTokyo -> <<540>>
    [] zone = ZoneLA -> <<-480>>
    [] zone = <<"A", "m", "e", "r", "i", "c", "a", "/", "N", "e", "w", "_",
                "Y", "o", "r", "k">> -> <<-300>>
    [] zone = <<"E", "u", "r", "o", "p", "e", "/", "L", "o", "n", "d", "o", "n">> -> <<0>>
    [] zone = ZoneLocal -> <<>>
    [] Len(zone) = 9 /\ SubSeq(zone, 1, 3) = ZoneUTC /\ isOffset(SubSeq(zone, 4, 9)) ->
         <<FixedOffsetMinutes(SubSeq(zone, 4, 9))>>
    [] OTHER -> <<>>

SystemOffset == ZoneOffset(SystemZone)[1]

\* DateTime.fromJSDate(date) and DateTime.fromJSDate(date, {zone})
DateTimeAt(ts, offset) ==
  IF offset = <<>>
  THEN [ts |-> ts, off |-> 0, valid |-> FALSE]
  ELSE [ts |-> ts, off |-> offset[1], valid |-> TRUE]

DateTimeIn(ts, zone) ==
  IF zone = ZoneLocal
  THEN [ts |-> ts, off |-> SystemOffset, valid |-> TRUE]
  ELSE DateTimeAt(ts, ZoneOffset(zone))

\* dt.setZone(zone), dt.toLocal()
setZone(dt, zone) == IF dt.valid THEN DateTimeIn(dt.ts, zone) ELSE dt
toLocal(dt) == setZone(dt, ZoneLocal)

\* dt.toISO(): the wall clock and the offset, or null for an invalid DateTime
toISO(dt) == IF dt.valid THEN <<dt.ts + dt.off, dt.off>> ELSE <<>>

\* DateTime.fromISO(iso) reads the instant back and shows it in the system
\* zone; with {zone} it shows it in that zone
fromISO(iso, zone) ==
  IF iso = <<>> THEN [ts |-> 0, off |-> 0, valid |-> FALSE]
  ELSE DateTimeIn(iso[1] - iso[2], zone)

(***************************************************************************)
(* formatTime (content/parse/format.ts:22-47).  A formatted string is      *)
(* modelled by what it shows: the preset's style, the wall clock and, for  *)
(* the styles that print it, the offset.                                   *)
(***************************************************************************)
FormatPresets == {"system", "iso", "short", "long"}

PresetSystem(dt) == [style |-> "DATETIME_MED", wall |-> dt.ts + dt.off, zone |-> <<>>]

\* luxon throws on a pattern it cannot tokenize: here, one with an unclosed quote
ToFormatThrows(customFormat) ==
  Cardinality({i \in 1..Len(customFormat) : customFormat[i] = "'"}) % 2 = 1

\* an exception leaving a function
Thrown(error) == [thrown |-> error]

\* FORMAT_PRESETS[preset] reads an object literal, so a preset that names a
\* property of Object.prototype finds that property: __proto__ is the
\* prototype object, which is truthy and cannot be called; toString is a
\* function, called without a receiver; constructor is Object, which returns
\* its argument
formatTime(dt, preset, customFormat) ==
  IF ~dt.valid THEN [style |-> "Invalid date", wall |-> 0, zone |-> <<>>]
  ELSE IF preset = "custom" /\ customFormat /= <<>>
  THEN IF ToFormatThrows(customFormat)
       THEN PresetSystem(dt)
       ELSE [style |-> customFormat, wall |-> dt.ts + dt.off, zone |-> <<dt.off>>]
  ELSE CASE preset = "system" -> PresetSystem(dt)
         [] preset = "iso" -> [style |-> "ISO", wall |-> dt.ts + dt.off, zone |-> <<dt.off>>]
         [] preset = "short" -> [style |-> "DATETIME_SHORT", wall |-> dt.ts + dt.off, zone |-> <<>>]
         [] preset = "long" -> [style |-> "DATETIME_FULL", wall |-> dt.ts + dt.off, zone |-> <<dt.off>>]
         [] preset = "__proto__" -> Thrown("TypeError")
         [] preset = "toString" -> [style |-> "[object Undefined]", wall |-> 0, zone |-> <<>>]
         [] preset = "constructor" -> dt
         [] OTHER -> PresetSystem(dt)

(***************************************************************************)
(* chrono-node, the external parser, on the page's texts: the matches it   *)
(* returns for a text (date = the instant, tz = the offset it read, as     *)
(* <<minutes>>, or <<>>).  "3pm" is 15:00 of the reference day in the      *)
(* system zone; "3pm PST" is 15:00 at -08:00.                              *)
(***************************************************************************)
Text3pm == <<"3", "p", "m">>

ChronoParse(text) ==
  CASE text = Text3pm ->
         << [text |-> Text3pm, index |-> 0, date |-> 15 * 60 - SystemOffset,
             tz |-> <<>>, tzCertain |-> FALSE] >>
    [] text = TextAbbrev ->
         << [text |-> TextAbbrev, index |-> 0, date |-> 15 * 60 + 480,
             tz |-> <<-480>>, tzCertain |-> TRUE] >>
    [] OTHER -> <<>>

(***************************************************************************)
(* parseTime (content/parse/timezone.ts:98-158), the panel's parser        *)
(* wrapper.  aborted = signal.aborted at the call.                         *)
(***************************************************************************)
ParsedFrom(result, hasExplicitTimezone) ==
  [date |-> result.date,
   matchedText |-> result.text,
   startIndex |-> result.index,
   endIndex |-> result.index + Len(result.text),
   timezoneOffsetMinutes |->
     IF hasExplicitTimezone /\ result.tz /= <<>> THEN result.tz ELSE <<>>,
   hasExplicitTimezone |-> hasExplicitTimezone]

ParseTrimmed(trimmedText, results, aborted) ==
  IF aborted THEN NULL
  ELSE IF trimmedText = <<>> THEN NULL
  ELSE IF Len(results) = 0 THEN NULL
  ELSE ParsedFrom(results[1], results[1].tzCertain)

parseTime(text, aborted) ==
  ParseTrimmed(Slice0(Trim(text), 200), ChronoParse(Slice0(Trim(text), 200)), aborted)

\* resolveSourceZone (part_000:34-44): the panel's variant
resolveSourceZone(timezoneOffsetMinutes) ==
  IF timezoneOffsetMinutes /= <<>>
  THEN minutesToOffset(timezoneOffsetMinutes[1])
  ELSE ZoneLocal

\* convertToZone (content/parse/convert.ts:104-114)
convertToZone(dt, zone) ==
  IF zone = ZoneLocal THEN toLocal(dt)
  ELSE IF isOffset(zone) THEN setZone(dt, ZoneUTC \o zone)
  ELSE setZone(dt, zone)

(***************************************************************************)
(* convertTime (content/parse/convert.ts:15-99), the panel's converter     *)
(***************************************************************************)
ConvertedTime(zone, dt, s) ==
  [zone |-> zone,
   formatted |-> formatTime(dt, s.formatPreset, s.customFormat),
   isoString |-> toISO(dt)]

ConvertFrom(parseResult, sourceZone, sourceDateTime, s) ==
  IF ~sourceDateTime.valid THEN NULL
  ELSE [parsed |-> [originalText |-> parseResult.matchedText,
                    isoString |-> toISO(sourceDateTime),
                    sourceZone |-> sourceZone,
                    sourceZoneExplicit |-> parseResult.hasExplicitTimezone],
        local |-> ConvertedTime(ZoneLocal, toLocal(sourceDateTime), s),
        target |-> ConvertedTime(s.defaultTargetZone,
                                 convertToZone(sourceDateTime, s.defaultTargetZone), s)]

SourceDateTime(parseResult, sourceZone) ==
  IF parseResult.hasExplicitTimezone
  THEN IF sourceZone /= ZoneLocal
       THEN setZone(DateTimeIn(parseResult.date, <<"u", "t", "c">>),
                    IF isOffset(sourceZone) THEN ZoneUTC \o sourceZone ELSE sourceZone)
       ELSE DateTimeIn(parseResult.date, <<"u", "t", "c">>)
  ELSE DateTimeIn(parseResult.date, ZoneLocal)

ConvertWithZone(parseResult, sourceZone, s) ==
  ConvertFrom(parseResult, sourceZone, SourceDateTime(parseResult, sourceZone), s)

convertTime(parseResult, s) ==
  ConvertWithZone(parseResult, resolveSourceZone(parseResult.timezoneOffsetMinutes), s)

(***************************************************************************)
(* Settings (shared/types.ts:63-72), DEFAULT_SETTINGS and per-site         *)
(* enablement.  enabledSites is a set of <<origin, enabled>> entries.      *)
(***************************************************************************)
PanelSettings(sites, zone, preset) ==
  [enabledSites |-> sites, defaultTargetZone |-> zone,
   formatPreset |-> preset, customFormat |-> <<"f", "f">>]

DEFAULT_SETTINGS == PanelSettings({}, ZoneLocal, "system")

DEFAULT_ENABLED == FALSE

isEnabledForOrigin(s, origin) ==
  IF \E e \in s.enabledSites : e[1] = origin
  THEN (CHOOSE e \in s.enabledSites : e[1] = origin)[2]
  ELSE DEFAULT_ENABLED

SiteOn == {<<CurrentOrigin, TRUE>>}

\* setEnabledForOrigin (part_005:34-55)
WithoutOrigin(sites, origin) == {e \in sites : e[1] /= origin}

\* variant: enabling an origin drops the entries of the other origins
setEnabledForOrigin_DropsOthers(s, origin, enabled) ==
  [s EXCEPT !.enabledSites =
     IF enabled THEN {<<origin, TRUE>>} ELSE WithoutOrigin(@, origin)]

setEnabledForOrigin(s, origin, enabled) ==
  [s EXCEPT !.enabledSites =
     IF enabled THEN WithoutOrigin(@, origin) \cup {<<origin, TRUE>>}
     ELSE WithoutOrigin(@, origin)]

\* the settings argument once setEnabledForOrigin has returned: the function
\* builds new objects with spreads and assigns to none of its argument's
ArgumentAfterSet(s, origin, enabled) == s

\* the records another context (the popup) writes to the store
StoredSettings ==
  { DEFAULT_SETTINGS,
    PanelSettings(SiteOn, ZoneLocal, "system"),
    PanelSettings(SiteOn, ZoneUTC, "system"),
    PanelSettings(SiteOn, ZoneLocal, "iso") }

\* the options of the panel's two selects
PanelZoneOptions == {ZoneLocal, ZoneUTC}
PanelPresetOptions == {"system", "iso"}

\* the selections a content script is driven with
PageSelections ==
  { NoSelection,
    Sel(TRUE, FALSE, TextNoDate, 7, 2),
    Sel(TRUE, FALSE, TextPadded, 7, 2),
    Sel(TRUE, FALSE, TextAbbrev, 0, 2) }

(***************************************************************************)
(* The parse cache and tryParse (content/index.ts:83-120, and the same     *)
(* text in part_003:78-115).  c is the cache and the abort controller as   *)
(* the call finds them; the result is the cache after the call, with       *)
(* ret = the value returned and computed = parseTime was called.           *)
(***************************************************************************)
Cache ==
  [lastParsedVersion |-> lastParsedVersion,
   lastParseResult |-> lastParseResult,
   lastParseFailureVersion |-> lastParseFailureVersion,
   parseAbortController |-> parseAbortController,
   controllers |-> controllers]

\* new AbortController(): an object distinct from every live one
NewController(live) == CHOOSE i \in 1..(Cardinality(live) + 1) : i \notin live

\* parseTime, then convertTime unless the parse missed
ConvertParsed(chronoResult, s) ==
  IF chronoResult = NULL THEN NULL ELSE convertTime(chronoResult, s)

ParseAndConvert(snapshot, aborted, s) ==
  ConvertParsed(parseTime(snapshot.text, aborted), s)

\* variant: a failure is recorded without clearing the success slot's version
Record_BothSlots(snapshot, fresh, live, result) ==
  [lastParsedVersion |-> snapshot.version,
   lastParseResult |-> result,
   lastParseFailureVersion |-> IF result = NULL THEN snapshot.version ELSE -1,
   parseAbortController |-> fresh,
   controllers |-> live,
   ret |-> result, computed |-> TRUE]

Record(snapshot, fresh, live, result) ==
  IF result = NULL
  THEN [lastParsedVersion |-> -1,
        lastParseResult |-> NULL,
        lastParseFailureVersion |-> snapshot.version,
        parseAbortController |-> fresh,
        controllers |-> live,
        ret |-> NULL, computed |-> TRUE]
  ELSE [lastParsedVersion |-> snapshot.version,
        lastParseResult |-> result,
        lastParseFailureVersion |-> -1,
        parseAbortController |-> fresh,
        controllers |-> live,
        ret |-> result, computed |-> TRUE]

\* the signal handed to parseTime is the fresh controller's
ParseWith(snapshot, fresh, live, s) ==
  Record(snapshot, fresh, live, ParseAndConvert(snapshot, fresh \notin live, s))

Compute(snapshot, afterAbort, fresh, s) ==
  ParseWith(snapshot, fresh, afterAbort \cup {fresh}, s)

\* parseAbortController.abort(), then a new controller
Recompute(snapshot, afterAbort, s) ==
  Compute(snapshot, afterAbort, NewController(afterAbort), s)

\* variant: no lookup, every call computes
tryParse_NoLookup(snapshot, c, s) ==
  Recompute(snapshot, c.controllers \ {c.parseAbortController}, s)

\* variant: the previous attempt's controller is left un-aborted
tryParse_NoAbort(snapshot, c, s) ==
  IF snapshot.version = c.lastParsedVersion /\ c.lastParseResult /= NULL
  THEN c @@ [ret |-> c.lastParseResult, computed |-> FALSE]
  ELSE IF snapshot.version = c.lastParseFailureVersion
  THEN c @@ [ret |-> NULL, computed |-> FALSE]
  ELSE Recompute(snapshot, c.controllers, s)

tryParse(snapshot, c, s) ==
  IF snapshot.version = c.lastParsedVersion /\ c.lastParseResult /= NULL
  THEN c @@ [ret |-> c.lastParseResult, computed |-> FALSE]
  ELSE IF snapshot.version = c.lastParseFailureVersion
  THEN c @@ [ret |-> NULL, computed |-> FALSE]
  ELSE Recompute(snapshot, c.controllers \ {c.parseAbortController}, s)

\* the cache variables take the values a tryParse call (or no call) left
SetCache(c) ==
  /\ lastParsedVersion' = c.lastParsedVersion
  /\ lastParseResult' = c.lastParseResult
  /\ lastParseFailureVersion' = c.lastParseFailureVersion
  /\ parseAbortController' = c.parseAbortController
  /\ controllers' = c.controllers

\* what a callback's tryParse call did, for the observer
Called(op, snapshot, t) ==
  [op |-> op, version |-> snapshot.version, computed |-> t.computed, ret |-> t.ret]

Observe(op, snapshot, t) ==
  /\ lastCall' = Called(op, snapshot, t)
  /\ lastGood' = IF t.ret /= NULL THEN snapshot ELSE lastGood

(***************************************************************************)
(* The panel (part_002:50-365): the closure state of createPanel and what  *)
(* render() last wrote to the DOM.                                         *)
(***************************************************************************)
Empty == [empty |-> TRUE]

\* render (part_002:167-237)
render(currentResult, s) ==
  IF currentResult = NULL THEN Empty
  ELSE [originalText |-> currentResult.parsed.originalText,
        parsedFormatted |->
          formatTime(fromISO(currentResult.parsed.isoString,
                             currentResult.parsed.sourceZone),
                     s.formatPreset, s.customFormat),
        sourceZone |-> currentResult.parsed.sourceZone,
        targetFormatted |-> currentResult.target.formatted,
        zoneSelected |-> s.defaultTargetZone,
        presetSelected |-> s.formatPreset]

createPanel(initialSettings) ==
  [currentResult |-> NULL, settings |-> initialSettings, visible |-> FALSE,
   html |-> Empty]

PanelShow(p, result) ==
  [p EXCEPT !.currentResult = result, !.visible = TRUE,
            !.html = render(result, p.settings)]

PanelUpdateResult(p, result) ==
  [p EXCEPT !.currentResult = result, !.html = render(result, p.settings)]

PanelUpdateSettings(p, newSettings, shouldRender) ==
  [p EXCEPT !.settings = newSettings,
            !.html = IF shouldRender THEN render(p.currentResult, newSettings)
                     ELSE p.html]

\* updatePanel (content/index.ts:68-77): the panel and the visible flag after it
updatePanel(p, vis, result) ==
  IF p = NULL THEN [panel |-> p, visible |-> vis]
  ELSE IF ~vis THEN [panel |-> PanelShow(p, result), visible |-> TRUE]
  ELSE [panel |-> PanelUpdateResult(p, result), visible |-> vis]

(***************************************************************************)
(* The fixed-panel content script (content/index.ts)                       *)
(***************************************************************************)
\* handleSelectionChange (index.ts:126-135), run by the tracker's emission
PanelShown(u) ==
  /\ panel' = u.panel
  /\ visible' = u.visible

PanelParsed(op, snapshot, t) ==
  /\ SetCache(t)
  /\ Observe(op, snapshot, t)
  /\ IF t.ret /= NULL
     THEN PanelShown(updatePanel(panel, visible, t.ret))
     ELSE UNCHANGED <<panel, visible>>

PanelHandleSelectionChange(op, snapshot) ==
  /\ currentSnapshot' = snapshot
  /\ IF snapshot /= NULL
     THEN PanelParsed(op, snapshot, tryParse(snapshot, Cache, settings))
     ELSE /\ UNCHANGED <<lastParsedVersion, lastParseResult, lastParseFailureVersion,
                         parseAbortController, controllers, panel, visible, lastGood>>
          /\ lastCall' = NULL

\* the tracker settles on a selection: createSnapshot, then the callback
PanelEmission(r) ==
  /\ currentVersion' = r.version
  /\ emitted' = Emit(emitted, r.snap)
  /\ PanelHandleSelectionChange("selection", r.snap)

PanelSelection(sel) ==
  /\ tracking
  /\ CanSnapshot(sel, FALSE, currentVersion)
  /\ selection' = sel
  /\ PanelEmission(createSnapshot(sel, FALSE, currentVersion))
  /\ UNCHANGED <<debounceTimer, phVersion, isPointerDown, pendingSelectionChange,
                 tracking, phEmitted, settings, initialized, stored, notifications, loads>>
  /\ UNCHANGED tipVars

\* the tail shared by handleSettingsUpdate (index.ts:143-157) and the storage
\* listener (index.ts:224-238): settings' is already assigned
PanelReparsed(p1, t) ==
  /\ SetCache(t)
  /\ panel' = IF t.ret /= NULL THEN PanelUpdateResult(p1, t.ret) ELSE p1
  /\ Observe("settings", currentSnapshot, t)

\* variant: the success slot survives a settings change
ResetParsed_Keep(c) == c

\* lastParsedVersion = -1 before the tryParse call (index.ts:148)
ResetParsed(c) == [c EXCEPT !.lastParsedVersion = -1]

PanelApplySettings(newSettings) ==
  IF currentSnapshot /= NULL /\ visible /\ panel /= NULL
  THEN PanelReparsed(PanelUpdateSettings(panel, newSettings, FALSE),
                     tryParse(currentSnapshot, ResetParsed(Cache), newSettings))
  ELSE /\ panel' = IF panel /= NULL THEN PanelUpdateSettings(panel, newSettings, TRUE)
                   ELSE panel
       /\ lastCall' = NULL
       /\ UNCHANGED <<lastParsedVersion, lastParseResult, lastParseFailureVersion,
                      parseAbortController, controllers, lastGood>>

\* chrome.storage.sync.set: the write and the onChanged event it raises
StorageSet(value, ok) ==
  IF ok /\ value /= stored
  THEN /\ Len(notifications) < MaxQueue
       /\ stored' = value
       /\ notifications' = Append(notifications, value)
  ELSE UNCHANGED <<stored, notifications>>

\* handleSettingsUpdate (index.ts:139-158), called by the panel's selects
SettingsUpdated(newSettings, ok) ==
  /\ settings' = newSettings
  /\ StorageSet(newSettings, ok)
  /\ PanelApplySettings(newSettings)

handleSettingsUpdate(partial, ok) ==
  /\ panel /= NULL
  /\ panel.html /= Empty
  /\ \/ /\ "defaultTargetZone" \in DOMAIN partial
        /\ partial.defaultTargetZone /= panel.html.zoneSelected
     \/ /\ "formatPreset" \in DOMAIN partial
        /\ partial.formatPreset /= panel.html.presetSelected
  /\ SettingsUpdated(partial @@ settings, ok)
  /\ UNCHANGED <<selVars, currentSnapshot, visible, initialized, loads>>
  /\ UNCHANGED tipVars

\* cleanup (index.ts:184-206)
PanelCleanup ==
  /\ tracking' = FALSE
  /\ debounceTimer' = NULL
  /\ isPointerDown' = FALSE
  /\ pendingSelectionChange' = FALSE
  /\ panel' = NULL
  /\ hosts' = IF panel = NULL THEN hosts ELSE hosts - 1
  /\ controllers' = controllers \ {parseAbortController}
  /\ parseAbortController' = 0
  /\ currentSnapshot' = NULL
  /\ visible' = FALSE
  /\ lastParsedVersion' = -1
  /\ lastParseResult' = NULL
  /\ lastParseFailureVersion' = -1
  /\ initialized' = FALSE
  /\ lastCall' = NULL
  /\ lastGood' = NULL
  /\ UNCHANGED <<selection, currentVersion, phVersion, emitted, phEmitted,
                 settings, loads>>

\* the storage change listener (index.ts:209-239) takes the next event
\* variant: a notification that disables the origin is applied as a change
\* of settings, the controller is not torn down
StorageListenerUpTo_NoCleanup(newSettings, maxLoads) ==
     IF isEnabledForOrigin(newSettings, CurrentOrigin) /\ ~initialized
     THEN /\ loads + hosts < maxLoads
          /\ loads' = loads + 1
          /\ UNCHANGED <<selVars, settings, currentSnapshot, visible, lastParsedVersion,
                         lastParseResult, lastParseFailureVersion, panel,
                         parseAbortController, controllers, initialized,
                         lastCall, lastGood, hosts>>
     ELSE /\ settings' = newSettings
          /\ PanelApplySettings(newSettings)
          /\ UNCHANGED <<selVars, currentSnapshot, visible, initialized, loads, hosts>>

\* at most maxLoads calls of initialize() are left awaiting, and no more
\* started once maxLoads containers are in the document
StorageListenerUpTo(newSettings, maxLoads) ==
     IF ~isEnabledForOrigin(newSettings, CurrentOrigin) /\ initialized
     THEN PanelCleanup
     ELSE IF isEnabledForOrigin(newSettings, CurrentOrigin) /\ ~initialized
     THEN \* initialize() up to its await
          /\ loads + hosts < maxLoads
          /\ loads' = loads + 1
          /\ UNCHANGED <<selVars, settings, currentSnapshot, visible, lastParsedVersion,
                         lastParseResult, lastParseFailureVersion, panel,
                         parseAbortController, controllers, initialized,
                         lastCall, lastGood, hosts>>
     ELSE /\ settings' = newSettings
          /\ PanelApplySettings(newSettings)
          /\ UNCHANGED <<selVars, currentSnapshot, visible, initialized, loads, hosts>>

StorageListener(newSettings) == StorageListenerUpTo(newSettings, MaxLoads)

PanelStorageChanged ==
  /\ notifications /= <<>>
  /\ notifications' = Tail(notifications)
  /\ UNCHANGED stored
  /\ StorageListener(Head(notifications) @@ DEFAULT_SETTINGS)
  /\ UNCHANGED tipVars

\* the value under SETTINGS_KEY is undefined
Missing(value) == "null" \in DOMAIN value

\* variant: the stored record is returned as it is
loadSettingsFrom_NoMerge(value, ok, defaults) ==
  IF ~ok THEN defaults
  ELSE IF Missing(value) THEN defaults
  ELSE value

\* loadSettings (shared/storage.ts:12-30) over what storage.sync.get resolves
\* to; ~ok: the read rejects
loadSettingsFrom(value, ok, defaults) ==
  IF ~ok THEN defaults
  ELSE IF Missing(value) THEN defaults
  ELSE value @@ defaults

\* saveSettings (shared/storage.ts:35-42): what its promise settles to
Resolved == [resolved |-> TRUE]

Rejected(error) == [rejected |-> error]

saveSettings_Swallow(value, ok) == Resolved

saveSettings(value, ok) == IF ok THEN Resolved ELSE Rejected("storage.sync.set")

\* loadSettings (shared/storage.ts:12-30) as initialize() receives it
loadSettings(ok) == loadSettingsFrom(stored, ok, DEFAULT_SETTINGS)

\* initialize (index.ts:164-182) resumes after its await
InitializeWith(loaded) ==
  /\ loads > 0
  /\ loads' = loads - 1
  /\ settings' = loaded
  /\ lastCall' = NULL
  /\ IF ~isEnabledForOrigin(loaded, CurrentOrigin)
     THEN UNCHANGED <<initialized, panel, tracking, hosts>>
     ELSE /\ initialized' = TRUE
          /\ panel' = createPanel(loaded)
          /\ hosts' = hosts + 1
          /\ tracking' = TRUE
  /\ UNCHANGED <<selection, currentVersion, debounceTimer, phVersion, isPointerDown,
                 pendingSelectionChange, emitted, phEmitted, currentSnapshot, visible,
                 lastParsedVersion, lastParseResult, lastParseFailureVersion,
                 parseAbortController, controllers, stored, notifications, lastGood>>
  /\ UNCHANGED tipVars

PanelInitializeResume(ok) == InitializeWith(loadSettings(ok))

\* another context (the popup) saves settings
ExternalSave(value) ==
  /\ value /= stored
  /\ StorageSet(value, TRUE)
  /\ UNCHANGED <<selVars, settings, currentSnapshot, visible, lastParsedVersion,
                 lastParseResult, lastParseFailureVersion, panel, parseAbortController,
                 controllers, initialized, loads, lastCall, lastGood>>
  /\ UNCHANGED tipVars

\* the module body has run: the listener is subscribed and initialize() awaits
PanelInit ==
  /\ fnCall = NoCall
  /\ DragIdle
  /\ hosts = 0
  /\ TipIdle
  /\ selection = NoSelection
  /\ currentVersion = 0
  /\ debounceTimer = NULL
  /\ phVersion = 0
  /\ isPointerDown = FALSE
  /\ pendingSelectionChange = FALSE
  /\ tracking = FALSE
  /\ emitted = NoEmission
  /\ phEmitted = NoEmission
  /\ settings = DEFAULT_SETTINGS
  /\ currentSnapshot = NULL
  /\ visible = FALSE
  /\ lastParsedVersion = -1
  /\ lastParseResult = NULL
  /\ lastParseFailureVersion = -1
  /\ panel = NULL
  /\ parseAbortController = 0
  /\ controllers = {}
  /\ initialized = FALSE
  /\ stored \in {NULL, PanelSettings(SiteOn, ZoneLocal, "system")}
  /\ notifications = <<>>
  /\ loads = 1
  /\ lastCall = NULL
  /\ lastGood = NULL

PanelNext ==
  \/ /\ \E sel \in PageSelections : PanelSelection(sel)
     /\ UNCHANGED <<fnCall, dragVars, hosts>>
  \/ /\ \E z \in PanelZoneOptions, ok \in BOOLEAN :
          handleSettingsUpdate([defaultTargetZone |-> z], ok)
     /\ UNCHANGED <<fnCall, dragVars, hosts>>
  \/ /\ \E f \in PanelPresetOptions, ok \in BOOLEAN :
          handleSettingsUpdate([formatPreset |-> f], ok)
     /\ UNCHANGED <<fnCall, dragVars, hosts>>
  \/ /\ PanelStorageChanged
     /\ UNCHANGED <<fnCall, dragVars>>
  \/ /\ \E ok \in BOOLEAN : PanelInitializeResume(ok)
     /\ UNCHANGED <<fnCall, dragVars>>
  \/ /\ \E value \in StoredSettings : ExternalSave(value)
     /\ UNCHANGED <<fnCall, dragVars, hosts>>

SpecPanel == PanelInit /\ [][PanelNext]_vars

(***************************************************************************)
(* The content script's start and stop: the initial initialize() awaits    *)
(* its load while the popup saves settings and the listener is notified;   *)
(* up to MaxPending calls of initialize() await at once.                   *)
(***************************************************************************)
LifeStorageChanged ==
  /\ notifications /= <<>>
  /\ notifications' = Tail(notifications)
  /\ UNCHANGED stored
  /\ StorageListenerUpTo(Head(notifications) @@ DEFAULT_SETTINGS, MaxPending)
  /\ UNCHANGED tipVars

LifeNext ==
  \/ /\ \E sel \in PageSelections : PanelSelection(sel)
     /\ UNCHANGED <<fnCall, dragVars, hosts>>
  \/ /\ LifeStorageChanged
     /\ UNCHANGED <<fnCall, dragVars>>
  \/ /\ \E ok \in BOOLEAN : PanelInitializeResume(ok)
     /\ UNCHANGED <<fnCall, dragVars>>
  \/ /\ \E value \in StoredSettings : ExternalSave(value)
     /\ UNCHANGED <<fnCall, dragVars, hosts>>

SpecLife == PanelInit /\ [][LifeNext]_vars

\* the observer interface is handed the current snapshot once more
\* (onSelectionChange(snapshot) with the snapshot it already has)
PanelRedeliver ==
  /\ tracking
  /\ currentSnapshot /= NULL
  /\ PanelHandleSelectionChange("redeliver", currentSnapshot)
  /\ UNCHANGED <<selVars, settings, initialized, stored, notifications, loads>>
  /\ UNCHANGED tipVars

CacheNext ==
  \/ PanelNext
  \/ /\ PanelRedeliver
     /\ UNCHANGED <<fnCall, dragVars, hosts>>

SpecCache == PanelInit /\ [][CacheNext]_vars

(***************************************************************************)
(* The tooltip build's parser wrapper: parseTime, extractTimezoneInfo and  *)
(* normalizeOffset (shared/types.ts:135-237)                               *)
(***************************************************************************)
LowerCase == <<"a", "b", "c", "d", "e", "f", "g", "h", "i", "j", "k", "l", "m",
               "n", "o", "p", "q", "r", "s", "t", "u", "v", "w", "x", "y", "z">>
UpperCase == <<"A", "B", "C", "D", "E", "F", "G", "H", "I", "J", "K", "L", "M",
               "N", "O", "P", "Q", "R", "S", "T", "U", "V", "W", "X", "Y", "Z">>

IsLetter(c) == \E i \in 1..26 : c = LowerCase[i] \/ c = UpperCase[i]
IsWordChar(c) == IsLetter(c) \/ IsDigit(c) \/ c = "_"

ToUpperChar(c) ==
  IF \E i \in 1..26 : c = LowerCase[i]
  THEN UpperCase[CHOOSE i \in 1..26 : c = LowerCase[i]]
  ELSE c

\* String.prototype.toUpperCase
ToUpperCase(s) == [i \in 1..Len(s) |-> ToUpperChar(s[i])]

\* String.prototype.slice(a, b), 0 <= a <= b
Slice(s, a, b) ==
  IF a >= Len(s) THEN <<>>
  ELSE SubSeq(s, a + 1, IF b < Len(s) THEN b ELSE Len(s))

\* the last n characters
Suffix(s, n) == SubSeq(s, Len(s) - n + 1, Len(s))

IsSign(c) == c \in {"+", "-"}

\* [+-]\d{1,2}:?\d{2} on a whole string of 4, 5 or 6 characters
IsOffsetToken(s) ==
  /\ Len(s) \in 4..6
  /\ IsSign(s[1])
  /\ IsDigit(s[2])
  /\ CASE Len(s) = 4 -> IsDigit(s[3]) /\ IsDigit(s[4])
       [] Len(s) = 5 -> /\ IsDigit(s[3]) \/ s[3] = ":"
                        /\ IsDigit(s[4]) /\ IsDigit(s[5])
       [] Len(s) = 6 -> /\ IsDigit(s[3]) /\ s[4] = ":"
                        /\ IsDigit(s[5]) /\ IsDigit(s[6])

\* the group of OFFSET_PATTERN = /([+-]\d{1,2}:?\d{2}|Z)\s*$/i in a string
\* without trailing white space: the leftmost match is the longest one;
\* <<>> when there is no match
OffsetGroup(t) ==
  IF Len(t) >= 6 /\ IsOffsetToken(Suffix(t, 6)) THEN Suffix(t, 6)
  ELSE IF Len(t) >= 5 /\ IsOffsetToken(Suffix(t, 5)) THEN Suffix(t, 5)
  ELSE IF Len(t) >= 4 /\ IsOffsetToken(Suffix(t, 4)) THEN Suffix(t, 4)
  ELSE IF Len(t) >= 1 /\ t[Len(t)] \in {"Z", "z"} THEN Suffix(t, 1)
  ELSE <<>>

\* the run of word characters a string ends with
RECURSIVE LastWord(_)
LastWord(t) ==
  IF t = <<>> \/ ~IsWordChar(t[Len(t)]) THEN <<>>
  ELSE LastWord(SubSeq(t, 1, Len(t) - 1)) \o <<t[Len(t)]>>

\* the group of ABBREV_PATTERN = /\b([A-Z]{2,5}T?)\s*$/i: the word boundary
\* puts the start of the match at the start of the last word
AbbrevWord(w) ==
  IF /\ \A i \in 1..Len(w) : IsLetter(w[i])
     /\ \/ Len(w) \in 2..5
        \/ Len(w) = 6 /\ w[6] \in {"T", "t"}
  THEN w ELSE <<>>

\* TIMEZONE_ABBREVIATIONS (parse/timezone.ts:13-65), on the abbreviations
\* the page's texts can hold; <<>> for a key the table lacks
ZoneNewYork == <<"A", "m", "e", "r", "i", "c", "a", "/", "N", "e", "w", "_",
                 "Y", "o", "r", "k">>
ZoneLondon == <<"E", "u", "r", "o", "p", "e", "/", "L", "o", "n", "d", "o", "n">>

TIMEZONE_ABBREVIATIONS(abbrev) ==
  CASE abbrev = <<"E", "S", "T">> -> ZoneNewYork
    [] abbrev = <<"P", "S", "T">> -> ZoneLA
    [] abbrev = <<"P", "D", "T">> -> ZoneLA
    [] abbrev = <<"G", "M", "T">> -> ZoneLondon
    [] abbrev = <<"J", "S", "T">> -> ZoneTokyo
    [] abbrev = <<"U", "T", "C">> -> ZoneUTC
    [] abbrev = <<"Z">> -> ZoneUTC
    [] OTHER -> <<>>

\* String.prototype.replace(':', ''): the first colon goes
RECURSIVE RemoveColon(_)
RemoveColon(s) ==
  IF s = <<>> THEN s
  ELSE IF Head(s) = ":" THEN Tail(s)
  ELSE <<Head(s)>> \o RemoveColon(Tail(s))

NormalizeCleaned(cleaned) ==
  <<cleaned[1]>> \o PadStart2(Slice(cleaned, 1, 3)) \o <<":">>
                 \o PadStart2(Slice(cleaned, 3, 5))

normalizeOffset(offset) ==
  IF ToUpperCase(offset) = <<"Z">>
  THEN <<"+", "0", "0", ":", "0", "0">>
  ELSE NormalizeCleaned(RemoveColon(offset))

\* variant: only an offset counts as explicit
TimezoneInfo_OffsetOnly(explicitOffset, abbreviation) ==
  [explicitOffset |-> explicitOffset,
   abbreviation |-> abbreviation,
   hasExplicitTimezone |-> explicitOffset /= <<>>]

TimezoneInfo(explicitOffset, abbreviation) ==
  [explicitOffset |-> explicitOffset,
   abbreviation |-> abbreviation,
   hasExplicitTimezone |-> explicitOffset /= <<>> \/ abbreviation /= <<>>]

\* variant: the abbreviation is taken without looking it up in the table
KnownAbbreviation_Unchecked(potentialAbbrev) == potentialAbbrev

KnownAbbreviation(potentialAbbrev) ==
  IF potentialAbbrev /= <<>> /\ TIMEZONE_ABBREVIATIONS(potentialAbbrev) /= <<>>
  THEN potentialAbbrev ELSE <<>>

ExtractFrom(offsetMatch, t) ==
  IF offsetMatch /= <<>>
  THEN TimezoneInfo(normalizeOffset(offsetMatch), <<>>)
  ELSE TimezoneInfo(<<>>, KnownAbbreviation(ToUpperCase(AbbrevWord(LastWord(t)))))

extractTimezoneInfo(text) == ExtractFrom(OffsetGroup(TrimEnd(text)), TrimEnd(text))

ChronoParsedFrom(result, info) ==
  [date |-> result.date,
   matchedText |-> result.text,
   startIndex |-> result.index,
   endIndex |-> result.index + Len(result.text),
   explicitOffset |-> info.explicitOffset,
   abbreviation |-> info.abbreviation,
   hasExplicitTimezone |-> info.hasExplicitTimezone]

ChronoParseTrimmed(trimmedText, results, aborted) ==
  IF aborted THEN NULL
  ELSE IF trimmedText = <<>> THEN NULL
  ELSE IF Len(results) = 0 THEN NULL
  ELSE ChronoParsedFrom(results[1], extractTimezoneInfo(results[1].text))

\* parseTime of the tooltip build (shared/types.ts:135-185)
parseTimeChrono(text, aborted) ==
  ChronoParseTrimmed(Slice0(Trim(text), 200), ChronoParse(Slice0(Trim(text), 200)),
                     aborted)

(***************************************************************************)
(* The tooltip build's settings (shared/storage.ts:162-192), source-zone   *)
(* resolution (parse/timezone.ts:89-136) and converter                     *)
(* (shared/types.ts:293-389).  perSiteSourceZone is a set of               *)
(* <<origin, zone>> entries.                                               *)
(***************************************************************************)
TipSettings(enabled, source, primary, preset, perSite) ==
  [enabled |-> enabled,
   defaultSourceZone |-> source,
   targetZones |-> <<ZoneLocal, ZoneNewYork, ZoneLA, ZoneLondon, ZoneTokyo>>,
   primaryTargetZone |-> primary,
   formatPreset |-> preset,
   customFormat |-> <<"f", "f">>,
   perSiteSourceZone |-> perSite]

TIP_DEFAULT_SETTINGS == TipSettings(TRUE, ZoneLocal, ZoneLocal, "system", {})

\* settings.perSiteSourceZone[origin], <<>> when undefined
PerSiteZone(s, origin) ==
  IF \E e \in s.perSiteSourceZone : e[1] = origin
  THEN (CHOOSE e \in s.perSiteSourceZone : e[1] = origin)[2]
  ELSE <<>>

\* variant: a known abbreviation is looked at before the offset
resolveSourceZoneFor_AbbrevFirst(explicitOffset, abbreviation, s, origin) ==
  IF abbreviation /= <<>> /\ TIMEZONE_ABBREVIATIONS(abbreviation) /= <<>>
  THEN TIMEZONE_ABBREVIATIONS(abbreviation)
  ELSE IF explicitOffset /= <<>> THEN explicitOffset
  ELSE IF origin /= "" /\ PerSiteZone(s, origin) /= <<>> THEN PerSiteZone(s, origin)
  ELSE s.defaultSourceZone

\* resolveSourceZone (parse/timezone.ts:89-112); origin = "" when undefined
resolveSourceZoneFor(explicitOffset, abbreviation, s, origin) ==
  IF explicitOffset /= <<>> THEN explicitOffset
  ELSE IF abbreviation /= <<>> /\ TIMEZONE_ABBREVIATIONS(abbreviation) /= <<>>
  THEN TIMEZONE_ABBREVIATIONS(abbreviation)
  ELSE IF origin /= "" /\ PerSiteZone(s, origin) /= <<>> THEN PerSiteZone(s, origin)
  ELSE s.defaultSourceZone

\* resolveSourceZone of the build without source-zone settings
\* (part_001:30-46)
resolveSourceZoneLocal(explicitOffset, abbreviation) ==
  IF explicitOffset /= <<>> THEN explicitOffset
  ELSE IF abbreviation /= <<>> /\ TIMEZONE_ABBREVIATIONS(abbreviation) /= <<>>
  THEN TIMEZONE_ABBREVIATIONS(abbreviation)
  ELSE ZoneLocal

\* offsetToMinutes: 0 unless the string is +HH:MM
offsetToMinutes(offset) == IF isOffset(offset) THEN FixedOffsetMinutes(offset) ELSE 0

\* DateTime.fromObject({the wall clock}, {zone})
FromWallClock(wall, offset) ==
  IF offset = <<>>
  THEN [ts |-> 0, off |-> 0, valid |-> FALSE]
  ELSE [ts |-> wall - offset[1], off |-> offset[1], valid |-> TRUE]

\* date.getTimezoneOffset() is minus the system zone's offset
TipSourceDateTime(date, sourceZone) ==
  IF isOffset(sourceZone)
  THEN setZone(DateTimeAt(date + SystemOffset + offsetToMinutes(sourceZone), <<0>>),
               ZoneUTC \o sourceZone)
  ELSE IF sourceZone = ZoneLocal
  THEN DateTimeIn(date, ZoneLocal)
  ELSE FromWallClock(date + SystemOffset, ZoneOffset(sourceZone))

TipConvertFrom(parseResult, sourceZone, sourceDateTime, s) ==
  IF ~sourceDateTime.valid THEN NULL
  ELSE [parsed |-> [originalText |-> parseResult.matchedText,
                    isoString |-> toISO(sourceDateTime),
                    sourceZone |-> sourceZone,
                    sourceZoneExplicit |-> parseResult.hasExplicitTimezone,
                    abbreviation |-> parseResult.abbreviation],
        local |-> ConvertedTime(ZoneLocal, toLocal(sourceDateTime), s),
        primary |-> ConvertedTime(s.primaryTargetZone,
                                  convertToZone(sourceDateTime, s.primaryTargetZone), s),
        targets |-> [i \in 1..Len(s.targetZones) |->
                       ConvertedTime(s.targetZones[i],
                                     convertToZone(sourceDateTime, s.targetZones[i]), s)]]

TipConvertWithZone(parseResult, sourceZone, s) ==
  TipConvertFrom(parseResult, sourceZone,
                 TipSourceDateTime(parseResult.date, sourceZone), s)

convertTimeFor(parseResult, s, origin) ==
  TipConvertWithZone(parseResult,
                     resolveSourceZoneFor(parseResult.explicitOffset,
                                          parseResult.abbreviation, s, origin), s)

(***************************************************************************)
(* convertTime of the build that resolves the source zone from the text    *)
(* alone (content/parse/convert.ts:131-213): settings carry                *)
(* defaultTargetZone, as the panel's do.                                   *)
(***************************************************************************)
LocalSourceDateTime(parseResult, sourceZone) ==
  IF parseResult.explicitOffset /= <<>>
  THEN DateTimeIn(parseResult.date, ZoneLocal)
  ELSE IF sourceZone = ZoneLocal
  THEN DateTimeIn(parseResult.date, ZoneLocal)
  ELSE FromWallClock(parseResult.date + SystemOffset,
                     ZoneOffset(IF isOffset(sourceZone) THEN ZoneUTC \o sourceZone
                                ELSE sourceZone))

LocalConvertFrom(parseResult, sourceZone, sourceDateTime, s) ==
  IF ~sourceDateTime.valid THEN NULL
  ELSE [parsed |-> [originalText |-> parseResult.matchedText,
                    isoString |-> toISO(sourceDateTime),
                    sourceZone |-> sourceZone,
                    sourceZoneExplicit |-> parseResult.hasExplicitTimezone,
                    abbreviation |-> parseResult.abbreviation],
        local |-> ConvertedTime(ZoneLocal, toLocal(sourceDateTime), s),
        target |-> ConvertedTime(s.defaultTargetZone,
                                 convertToZone(sourceDateTime, s.defaultTargetZone), s)]

LocalConvertWithZone(parseResult, sourceZone, s) ==
  LocalConvertFrom(parseResult, sourceZone,
                   LocalSourceDateTime(parseResult, sourceZone), s)

convertTimeLocal(parseResult, s) ==
  LocalConvertWithZone(parseResult,
                       resolveSourceZoneLocal(parseResult.explicitOffset,
                                              parseResult.abbreviation), s)

(***************************************************************************)
(* The tooltip component (tooltip/tooltip.ts:32-314): what the controller  *)
(* and the page can tell of it.  displayed = the data-visible attribute.   *)
(***************************************************************************)
AUTO_DISMISS_DELAY == 4000
LEAVE_GRACE_PERIOD == 300
HIDE_ANIMATION_DELAY == 150

createTooltip(initialSettings) ==
  [currentResult |-> NULL, settings |-> initialSettings,
   visible |-> FALSE, displayed |-> FALSE]

TooltipShow(tt, result) ==
  [tt EXCEPT !.currentResult = result, !.visible = TRUE, !.displayed = TRUE]

TooltipUpdateResult(tt, result) == [tt EXCEPT !.currentResult = result]

(***************************************************************************)
(* The operators below take and return h, a record of the variables the    *)
(* hover module, the tooltip controller and its parse cache assign.        *)
(***************************************************************************)
Tip ==
  [state |-> state,
   tooltip |-> tooltip,
   hideTimers |-> hideTimers,
   autoDismissTimer |-> autoDismissTimer,
   leaveTimer |-> leaveTimer,
   strayLeaveTimers |-> strayLeaveTimers,
   userEngaged |-> userEngaged,
   lastParsedVersion |-> lastParsedVersion,
   lastParseResult |-> lastParseResult,
   lastParseFailureVersion |-> lastParseFailureVersion,
   parseAbortController |-> parseAbortController,
   controllers |-> controllers]

tipCore == <<state, tooltip, hideTimers, autoDismissTimer, leaveTimer,
             strayLeaveTimers, userEngaged, lastParsedVersion, lastParseResult,
             lastParseFailureVersion, parseAbortController, controllers>>

SetTip(h) ==
  /\ state' = h.state
  /\ tooltip' = h.tooltip
  /\ hideTimers' = h.hideTimers
  /\ autoDismissTimer' = h.autoDismissTimer
  /\ leaveTimer' = h.leaveTimer
  /\ strayLeaveTimers' = h.strayLeaveTimers
  /\ userEngaged' = h.userEngaged
  /\ lastParsedVersion' = h.lastParsedVersion
  /\ lastParseResult' = h.lastParseResult
  /\ lastParseFailureVersion' = h.lastParseFailureVersion
  /\ parseAbortController' = h.parseAbortController
  /\ controllers' = h.controllers

\* hide() of the component (tooltip.ts:275-289)
TooltipHide(h) ==
  IF ~h.tooltip.visible THEN h
  ELSE [h EXCEPT !.tooltip.visible = FALSE,
                 !.hideTimers = @ \cup {HIDE_ANIMATION_DELAY}]

\* cancelCloseTimer (hover.ts:114-123)
cancelCloseTimer(h) == [h EXCEPT !.autoDismissTimer = <<>>, !.leaveTimer = <<>>]

\* variant: the engagement of an earlier hover is kept
startAutoDismissTimer_KeepEngaged(h) ==
  [h EXCEPT !.autoDismissTimer = <<AUTO_DISMISS_DELAY>>, !.leaveTimer = <<>>]

\* startAutoDismissTimer (hover.ts:129-140), up to the timeout it sets
startAutoDismissTimer(h) ==
  [h EXCEPT !.autoDismissTimer = <<AUTO_DISMISS_DELAY>>, !.leaveTimer = <<>>,
            !.userEngaged = FALSE]

\* showTooltip (part_003:54-60)
\* variant: the tooltip is shown and no auto-dismiss timeout is started
showTooltip_NoTimer(h, result) ==
  IF h.tooltip = NULL THEN h
  ELSE [h EXCEPT !.tooltip = TooltipShow(@, result), !.state = "PREVIEW"]

showTooltip(h, result) ==
  IF h.tooltip = NULL THEN h
  ELSE startAutoDismissTimer([h EXCEPT !.tooltip = TooltipShow(@, result),
                                       !.state = "PREVIEW"])

\* variant: the tooltip is hidden and the state is left as it is
hideTooltip_KeepState(h) ==
  IF h.tooltip = NULL THEN h
  ELSE [TooltipHide(h) EXCEPT !.controllers = @ \ {h.parseAbortController},
                              !.parseAbortController = 0]

\* hideTooltip (part_003:62-72)
hideTooltip(h) ==
  IF h.tooltip = NULL THEN h
  ELSE [TooltipHide(h) EXCEPT !.state = "IDLE",
                              !.controllers = @ \ {h.parseAbortController},
                              !.parseAbortController = 0]

\* variant: a hover leaves the state as it is
Pin_Stay(h) == h

\* setState(PINNED) when the state is PREVIEW
Pin(h) == [h EXCEPT !.state = IF @ = "PREVIEW" THEN "PINNED" ELSE @]

\* handleTooltipHover (part_003:136-145)
handleTooltipHover(h, isHovering) ==
  IF isHovering THEN Pin(cancelCloseTimer(h)) ELSE hideTooltip(h)

\* notifyCallbacks (hover.ts:70-78): the controller's callback is in
\* hoverCallbacks from initialize() to stopHoverTracking()
notifyCallbacks(h, isHovering) ==
  IF initialized THEN handleTooltipHover(h, isHovering) ELSE h

\* handlePointerEnter (hover.ts:35-51)
handlePointerEnter(h) ==
  notifyCallbacks([h EXCEPT !.userEngaged = TRUE, !.autoDismissTimer = <<>>,
                            !.leaveTimer = <<>>], TRUE)

\* variant: the grace period is skipped
handlePointerLeave_NoGrace(h) ==
  IF h.userEngaged THEN [h EXCEPT !.leaveTimer = <<0>>] ELSE h

\* handlePointerLeave (hover.ts:56-65): the new timeout's handle replaces the
\* old one, which stays scheduled
handlePointerLeave(h) ==
  IF h.userEngaged
  THEN [h EXCEPT !.leaveTimer = <<LEAVE_GRACE_PERIOD>>,
                 !.strayLeaveTimers = @ \cup Left(h.leaveTimer)]
  ELSE h

\* the auto-dismiss timeout's callback (hover.ts:133-139)
AutoDismissCallback(h) ==
  IF ~h.userEngaged
  THEN notifyCallbacks([h EXCEPT !.autoDismissTimer = <<>>], FALSE)
  ELSE [h EXCEPT !.autoDismissTimer = <<>>]

\* the leave timeout's callback (hover.ts:60-63); run by a timeout whose
\* handle was lost it still clears leaveTimer
LeaveCallback(h) == notifyCallbacks([h EXCEPT !.leaveTimer = <<>>], FALSE)

StrayLeaveCallback(h) ==
  LeaveCallback([h EXCEPT !.strayLeaveTimers = (@ \ {0}) \cup Left(h.leaveTimer)])

\* stopHoverTracking (hover.ts:145-155)
stopHoverTracking(h) == [cancelCloseTimer(h) EXCEPT !.userEngaged = FALSE]

(***************************************************************************)
(* tryParse of the tooltip controller (part_003:78-115)                    *)
(***************************************************************************)
TipConvertParsed(chronoResult, s, origin) ==
  IF chronoResult = NULL THEN NULL ELSE convertTimeFor(chronoResult, s, origin)

TipParseAndConvert(snapshot, aborted, s) ==
  TipConvertParsed(parseTimeChrono(snapshot.text, aborted), s, snapshot.origin)

\* the signal of the fresh controller is not aborted
TipCompute(snapshot, afterAbort, fresh, s) ==
  Record(snapshot, fresh, afterAbort \cup {fresh},
         TipParseAndConvert(snapshot, FALSE, s))

TipRecompute(snapshot, afterAbort, s) ==
  TipCompute(snapshot, afterAbort, NewController(afterAbort), s)

TipTryParse(snapshot, h, s) ==
  IF snapshot.version = h.lastParsedVersion /\ h.lastParseResult /= NULL
  THEN [ret |-> h.lastParseResult, computed |-> FALSE] @@ h
  ELSE IF snapshot.version = h.lastParseFailureVersion
  THEN [ret |-> NULL, computed |-> FALSE] @@ h
  ELSE TipRecompute(snapshot, h.controllers \ {h.parseAbortController}, s) @@ h

\* variant: a failed parse leaves the tooltip as it is
AfterParse_KeepShown(t) ==
  IF t.ret /= NULL THEN showTooltip(t, t.ret) ELSE t

\* handleSelectionChange (part_003:121-134) after its tryParse call
AfterParse(t) ==
  IF t.ret /= NULL THEN showTooltip(t, t.ret)
  ELSE IF t.state /= "IDLE" THEN hideTooltip(t)
  ELSE t

(***************************************************************************)
(* The tooltip controller (part_003) with the debounce tracker             *)
(* (content/selection.ts) and the hover module (content/hover.ts)          *)
(***************************************************************************)
MaxPointers == 2
MaxEpisode == 5400
MaxChanges == 2

\* the variables only the panel build and the pointer-hold tracker assign
panelOnly == <<phVersion, isPointerDown, pendingSelectionChange, phEmitted,
               visible, panel>>

Shown == [stage |-> "shown", t |-> 0]

\* the callbacks that dismiss the tooltip; the ghost names the last one run
Dismissals == {"cleared", "escape", "scroll", "hidden"}

Dismissed(by) == [stage |-> by, t |-> 0]

EpisodeAfter(d) ==
  IF episode.stage \in {"off"} \cup Dismissals THEN episode
  ELSE IF episode.t + d > MaxEpisode THEN EpisodeOff
  ELSE [episode EXCEPT !.t = @ + d]

TipSelections ==
  { NoSelection,
    Sel(TRUE, FALSE, TextNoDate, 7, 2),
    Sel(TRUE, FALSE, TextAbbrev, 0, 2) }

TipStoredSettings ==
  { TIP_DEFAULT_SETTINGS,
    TipSettings(TRUE, ZoneLocal, ZoneUTC, "system", {}),
    TipSettings(FALSE, ZoneLocal, ZoneLocal, "system", {}) }

\* the user changes the selection: selectionchange reaches the tracker
TipSelectionChange(sel) ==
  /\ selectionChanges < MaxChanges
  /\ selectionChanges' = selectionChanges + 1
  /\ selection' = sel
  /\ DebounceHandleSelectionChange
  /\ episode' = EpisodeOff
  /\ UNCHANGED <<currentVersion, tracking, emitted, ctlVars, tipCore, pointers,
                 listening, panelOnly>>

TipParsed(snapshot, t) ==
  /\ SetTip(AfterParse(t))
  /\ episode' = IF t.ret /= NULL /\ tooltip /= NULL THEN Shown ELSE EpisodeOff

\* handleSelectionChange (part_003:121-134)
TipHandleSelectionChange(snapshot) ==
  /\ currentSnapshot' = snapshot
  /\ IF snapshot /= NULL
     THEN TipParsed(snapshot, TipTryParse(snapshot, Tip, settings))
     ELSE /\ SetTip(hideTooltip(Tip))
          /\ episode' = Dismissed("cleared")

TipEmission(r) ==
  /\ currentVersion' = r.version
  /\ TipHandleSelectionChange(r.snap)

\* the debounce timeout of content/selection.ts fires (selection.ts:76-87)
TipDebounceFire ==
  /\ debounceTimer /= NULL
  /\ debounceTimer.pending
  /\ debounceTimer.left = 0
  /\ CanSnapshot(selection, TRUE, currentVersion)
  /\ debounceTimer' = [debounceTimer EXCEPT !.pending = FALSE, !.left = 0]
  /\ TipEmission(createSnapshot(selection, TRUE, currentVersion))
  /\ UNCHANGED <<selection, tracking, emitted, settings, initialized, stored,
                 notifications, loads, lastCall, lastGood, pointers, listening,
                 panelOnly,
                 selectionChanges>>

\* a pointer enters the tooltip element, which has to be on display
PointerEnter ==
  /\ initialized
  /\ tooltip /= NULL
  /\ tooltip.displayed
  /\ pointers < MaxPointers
  /\ pointers' = pointers + 1
  /\ SetTip(handlePointerEnter(Tip))
  /\ episode' = IF episode.stage = "shown" /\ episode.t = 1000
                THEN [episode EXCEPT !.stage = "entered"] ELSE EpisodeOff
  /\ UNCHANGED <<selVars, settings, currentSnapshot, initialized, stored,
                 notifications, loads, lastCall, lastGood, listening, visible, panel,
                 selectionChanges>>

PointerLeave ==
  /\ initialized
  /\ pointers > 0
  /\ pointers' = pointers - 1
  /\ SetTip(handlePointerLeave(Tip))
  /\ episode' = IF episode.stage = "entered" /\ episode.t = 5000
                THEN [episode EXCEPT !.stage = "left"] ELSE EpisodeOff
  /\ UNCHANGED <<selVars, settings, currentSnapshot, initialized, stored,
                 notifications, loads, lastCall, lastGood, listening, visible, panel,
                 selectionChanges>>

\* the element went away under the pointers and no pointerleave is dispatched
PointerLost ==
  /\ pointers > 0
  /\ IF tooltip = NULL THEN TRUE ELSE ~tooltip.displayed
  /\ pointers' = 0
  /\ UNCHANGED <<selVars, ctlVars, tipCore, listening, episode, visible, panel,
                 selectionChanges>>

\* a timeout of the hover module is due: h is what its callback leaves
HoverTimeout(h) ==
  /\ SetTip(h)
  /\ UNCHANGED <<selVars, settings, currentSnapshot, initialized, stored,
                 notifications, loads, lastCall, lastGood, pointers, listening,
                 visible, panel,
                 selectionChanges>>

AutoDismissFire ==
  /\ autoDismissTimer = <<0>>
  /\ HoverTimeout(AutoDismissCallback(Tip))
  /\ UNCHANGED episode

LeaveFire ==
  /\ leaveTimer = <<0>>
  /\ HoverTimeout(LeaveCallback(Tip))
  /\ UNCHANGED episode

StrayLeaveFire ==
  /\ 0 \in strayLeaveTimers
  /\ HoverTimeout(StrayLeaveCallback(Tip))
  /\ episode' = EpisodeOff

\* variant: the hide timeout's callback does not look at visible
HideTimerFire_Unchecked ==
  /\ 0 \in hideTimers
  /\ hideTimers' = hideTimers \ {0}
  /\ tooltip' = IF tooltip /= NULL
                THEN [tooltip EXCEPT !.displayed = FALSE] ELSE tooltip
  /\ UNCHANGED <<selVars, settings, currentSnapshot, initialized, stored, notifications,
                 loads, lastCall, lastGood, pointers, listening, episode, visible, panel, selectionChanges,
                 state, autoDismissTimer, leaveTimer, strayLeaveTimers, userEngaged,
                 lastParsedVersion, lastParseResult, lastParseFailureVersion,
                 parseAbortController, controllers>>

\* the component's hide timeout (tooltip.ts:282-288)
HideTimerFire ==
  /\ 0 \in hideTimers
  /\ hideTimers' = hideTimers \ {0}
  /\ tooltip' = IF tooltip /= NULL /\ ~tooltip.visible
                THEN [tooltip EXCEPT !.displayed = FALSE] ELSE tooltip
  /\ UNCHANGED <<selVars, settings, currentSnapshot, initialized, stored, notifications,
                 loads, lastCall, lastGood, pointers, listening, episode, visible, panel, selectionChanges,
                 state, autoDismissTimer, leaveTimer, strayLeaveTimers, userEngaged,
                 lastParsedVersion, lastParseResult, lastParseFailureVersion,
                 parseAbortController, controllers>>

\* a document or window event whose handler leaves h
PageEvent(h, by) ==
  /\ initialized
  /\ SetTip(h)
  /\ episode' = Dismissed(by)
  /\ UNCHANGED <<selVars, settings, currentSnapshot, initialized, stored,
                 notifications, loads, lastCall, lastGood, pointers, listening,
                 visible, panel,
                 selectionChanges>>

\* handleKeyDown (part_003:147-152) on Escape
TipKeyDown == PageEvent(hideTooltip(cancelCloseTimer(Tip)), "escape")

\* handleScrollResize (part_003:154-159)
TipScrollResize ==
  PageEvent(IF state /= "IDLE" THEN hideTooltip(cancelCloseTimer(Tip)) ELSE Tip,
            "scroll")

\* handleVisibilityChange (part_003:161-166); hidden = document.hidden
TipVisibilityChange(hidden) ==
  PageEvent(IF hidden /\ state /= "IDLE" THEN hideTooltip(cancelCloseTimer(Tip))
            ELSE Tip,
            IF hidden THEN "hidden" ELSE "off")

TipUpdated(t) ==
  IF t.ret /= NULL /\ t.tooltip /= NULL
  THEN [t EXCEPT !.tooltip = TooltipUpdateResult(@, t.ret)]
  ELSE t

TipReparsed(t) == SetTip(TipUpdated(t))

\* the tail shared by handleSettingsUpdate (part_003:172-178) and the storage
\* listener (part_003:217-223)
TipApplySettings(newSettings) ==
  IF currentSnapshot /= NULL /\ state /= "IDLE"
  THEN TipReparsed(TipTryParse(currentSnapshot, ResetParsed(Tip), newSettings))
  ELSE UNCHANGED tipCore

TipSettingsUpdated(newSettings, ok) ==
  /\ settings' = newSettings
  /\ StorageSet(newSettings, ok)
  /\ TipApplySettings(newSettings)

\* handleSettingsUpdate (part_003:168-179), called by the tooltip's selects
TipHandleSettingsUpdate(partial, ok) ==
  /\ initialized
  /\ tooltip /= NULL
  /\ tooltip.displayed
  /\ tooltip.currentResult /= NULL
  /\ TipSettingsUpdated(partial @@ settings, ok)
  /\ episode' = EpisodeOff
  /\ UNCHANGED <<selVars, currentSnapshot, initialized, loads, lastCall, lastGood,
                 pointers, listening, visible, panel,
                 selectionChanges>>

\* cleanup (part_003:227-249)
TipCleanup ==
  /\ tracking' = FALSE
  /\ debounceTimer' = NULL
  /\ SetTip([stopHoverTracking(Tip) EXCEPT
               !.tooltip = NULL,
               !.controllers = @ \ {parseAbortController},
               !.parseAbortController = 0])
  /\ initialized' = FALSE
  /\ UNCHANGED <<selection, currentVersion, emitted, settings, currentSnapshot, loads>>

\* the listener initialize() subscribes (part_003:210-224)
TipStorageListener(newSettings) ==
  IF ~newSettings.enabled /\ initialized
  THEN TipCleanup
  ELSE /\ settings' = newSettings
       /\ TipApplySettings(newSettings)
       /\ UNCHANGED <<selVars, currentSnapshot, initialized, loads>>

TipStorageChanged ==
  /\ notifications /= <<>>
  /\ notifications' = Tail(notifications)
  /\ UNCHANGED stored
  /\ IF listening
     THEN TipStorageListener(Head(notifications) @@ TIP_DEFAULT_SETTINGS)
     ELSE UNCHANGED <<selVars, settings, currentSnapshot, initialized, loads, tipCore>>
  /\ episode' = EpisodeOff
  /\ UNCHANGED <<lastCall, lastGood, pointers, listening, panelOnly,
                 selectionChanges>>

\* beforeunload (part_003:251); cleanup returns at once when not initialized
TipBeforeUnload ==
  /\ initialized
  /\ TipCleanup
  /\ episode' = EpisodeOff
  /\ UNCHANGED <<stored, notifications, lastCall, lastGood, pointers, listening,
                 panelOnly,
                 selectionChanges>>

TipLoadSettings(ok) ==
  IF ~ok \/ stored = NULL THEN TIP_DEFAULT_SETTINGS ELSE stored @@ TIP_DEFAULT_SETTINGS

\* initialize (part_003:185-225) resumes after its await
TipInitializeWith(loaded) ==
  /\ loads > 0
  /\ loads' = loads - 1
  /\ settings' = loaded
  /\ IF ~loaded.enabled
     THEN UNCHANGED <<initialized, tooltip, tracking, listening>>
     ELSE /\ initialized' = TRUE
          /\ tooltip' = createTooltip(loaded)
          /\ tracking' = TRUE
          /\ listening' = TRUE
  /\ UNCHANGED <<selection, currentVersion, debounceTimer, emitted, currentSnapshot,
                 stored, notifications, lastCall, lastGood, pointers, episode,
                 panelOnly, selectionChanges, state, hideTimers, autoDismissTimer, leaveTimer,
                 strayLeaveTimers, userEngaged, lastParsedVersion, lastParseResult,
                 lastParseFailureVersion, parseAbortController, controllers>>

TipInitializeResume(ok) == TipInitializeWith(TipLoadSettings(ok))

\* another context (the options page) saves settings
TipExternalSave(value) ==
  /\ value /= stored
  /\ StorageSet(value, TRUE)
  /\ UNCHANGED <<selVars, settings, currentSnapshot, initialized, loads, lastCall,
                 lastGood, tipCore, pointers, listening, episode, visible, panel,
                 selectionChanges>>

\* time passes, by one of ds
TimePasses(ds) ==
  /\ \E d \in ds :
       /\ Tick(d)
       /\ episode' = EpisodeAfter(d)
  /\ UNCHANGED <<selection, currentVersion, tracking, emitted, ctlVars, state, tooltip,
                 userEngaged, pointers, listening, panelOnly,
                 selectionChanges>>

\* time passes up to the next timeout
NextTimeout == TimePasses({Min(PendingTimers \cup {MaxEpisode})} \cap PendingTimers)

\* time passes by any of Delays or up to a pending timeout
Advance == TimePasses(Delays \cup PendingTimers)

\* the module body has run: initialize() awaits the settings
TipInitStored(value) ==
  /\ fnCall = NoCall
  /\ DragIdle
  /\ hosts = 0
  /\ TipIdle
  /\ selection = NoSelection
  /\ currentVersion = 0
  /\ debounceTimer = NULL
  /\ phVersion = 0
  /\ isPointerDown = FALSE
  /\ pendingSelectionChange = FALSE
  /\ tracking = FALSE
  /\ emitted = NoEmission
  /\ phEmitted = NoEmission
  /\ settings = TIP_DEFAULT_SETTINGS
  /\ currentSnapshot = NULL
  /\ visible = FALSE
  /\ lastParsedVersion = -1
  /\ lastParseResult = NULL
  /\ lastParseFailureVersion = -1
  /\ panel = NULL
  /\ parseAbortController = 0
  /\ controllers = {}
  /\ initialized = FALSE
  /\ stored = value
  /\ notifications = <<>>
  /\ loads = 1
  /\ lastCall = NULL
  /\ lastGood = NULL

\* nothing has been stored yet
TipInit == TipInitStored(NULL)

\* the page, the pointer and the clock
TipNext ==
  \/ /\ \E sel \in TipSelections : TipSelectionChange(sel)
     /\ UNCHANGED <<fnCall, dragVars, hosts>>
  \/ /\ TipDebounceFire
     /\ UNCHANGED <<fnCall, dragVars, hosts>>
  \/ /\ PointerEnter
     /\ UNCHANGED <<fnCall, dragVars, hosts>>
  \/ /\ PointerLeave
     /\ UNCHANGED <<fnCall, dragVars, hosts>>
  \/ /\ PointerLost
     /\ UNCHANGED <<fnCall, dragVars, hosts>>
  \/ /\ AutoDismissFire
     /\ UNCHANGED <<fnCall, dragVars, hosts>>
  \/ /\ LeaveFire
     /\ UNCHANGED <<fnCall, dragVars, hosts>>
  \/ /\ StrayLeaveFire
     /\ UNCHANGED <<fnCall, dragVars, hosts>>
  \/ /\ HideTimerFire
     /\ UNCHANGED <<fnCall, dragVars, hosts>>
  \/ /\ TipKeyDown
     /\ UNCHANGED <<fnCall, dragVars, hosts>>
  \/ /\ TipScrollResize
     /\ UNCHANGED <<fnCall, dragVars, hosts>>
  \/ /\ \E hidden \in BOOLEAN : TipVisibilityChange(hidden)
     /\ UNCHANGED <<fnCall, dragVars, hosts>>
  \/ /\ TipBeforeUnload
     /\ UNCHANGED <<fnCall, dragVars, hosts>>
  \/ /\ \E ok \in BOOLEAN : TipInitializeResume(ok)
     /\ UNCHANGED <<fnCall, dragVars, hosts>>
  \/ /\ Advance
     /\ UNCHANGED <<fnCall, dragVars, hosts>>

SpecTip == TipInit /\ [][TipNext]_vars

\* the page, the settings and the clock, with no pointer over the tooltip
TipSettingsNext ==
  \/ /\ \E sel \in TipSelections : TipSelectionChange(sel)
     /\ UNCHANGED <<fnCall, dragVars, hosts>>
  \/ /\ TipDebounceFire
     /\ UNCHANGED <<fnCall, dragVars, hosts>>
  \/ /\ AutoDismissFire
     /\ UNCHANGED <<fnCall, dragVars, hosts>>
  \/ /\ HideTimerFire
     /\ UNCHANGED <<fnCall, dragVars, hosts>>
  \/ /\ TipKeyDown
     /\ UNCHANGED <<fnCall, dragVars, hosts>>
  \/ /\ \E z \in {ZoneLocal, ZoneUTC}, ok \in BOOLEAN :
          TipHandleSettingsUpdate([primaryTargetZone |-> z], ok)
     /\ UNCHANGED <<fnCall, dragVars, hosts>>
  \/ /\ \E f \in {"system", "iso"} : TipHandleSettingsUpdate([formatPreset |-> f], TRUE)
     /\ UNCHANGED <<fnCall, dragVars, hosts>>
  \/ /\ TipStorageChanged
     /\ UNCHANGED <<fnCall, dragVars, hosts>>
  \/ /\ TipBeforeUnload
     /\ UNCHANGED <<fnCall, dragVars, hosts>>
  \/ /\ \E ok \in BOOLEAN : TipInitializeResume(ok)
     /\ UNCHANGED <<fnCall, dragVars, hosts>>
  \/ /\ \E value \in TipStoredSettings : TipExternalSave(value)
     /\ UNCHANGED <<fnCall, dragVars, hosts>>
  \/ /\ NextTimeout
     /\ UNCHANGED <<fnCall, dragVars, hosts>>

SpecTipSettings == TipInit /\ [][TipSettingsNext]_vars

(***************************************************************************)
(* The tooltip controller started over a store that may hold settings      *)
(* whose source zone the runtime does not know; the settings stay as       *)
(* loaded.                                                                 *)
(***************************************************************************)
StoredAtStart ==
  { NULL,
    TipSettings(TRUE, ZoneUTC, ZoneLocal, "system", {}),
    TipSettings(TRUE, ZoneUnknown, ZoneLocal, "system", {}) }

\* selections: texts with and without timezone evidence
TipZoneSelections == TipSelections \cup {Sel(TRUE, FALSE, TextPadded, 7, 2)}

TipZoneInit == \E value \in StoredAtStart : TipInitStored(value)

TipZoneNext ==
  \/ /\ \E sel \in TipZoneSelections : TipSelectionChange(sel)
     /\ UNCHANGED <<fnCall, dragVars, hosts>>
  \/ /\ TipDebounceFire
     /\ UNCHANGED <<fnCall, dragVars, hosts>>
  \/ /\ AutoDismissFire
     /\ UNCHANGED <<fnCall, dragVars, hosts>>
  \/ /\ HideTimerFire
     /\ UNCHANGED <<fnCall, dragVars, hosts>>
  \/ /\ TipKeyDown
     /\ UNCHANGED <<fnCall, dragVars, hosts>>
  \/ /\ \E ok \in BOOLEAN : TipInitializeResume(ok)
     /\ UNCHANGED <<fnCall, dragVars, hosts>>
  \/ /\ NextTimeout
     /\ UNCHANGED <<fnCall, dragVars, hosts>>

SpecTipZone == TipZoneInit /\ [][TipZoneNext]_vars

(***************************************************************************)
(* The tooltip and the pointer under the event loop's scheduling: a        *)
(* timeout that is due has its callback run, and time passes up to the     *)
(* next timeout.                                                           *)
(***************************************************************************)
TipHoverNext ==
  \/ /\ \E sel \in TipSelections : TipSelectionChange(sel)
     /\ UNCHANGED <<fnCall, dragVars, hosts>>
  \/ /\ TipDebounceFire
     /\ UNCHANGED <<fnCall, dragVars, hosts>>
  \/ /\ PointerEnter
     /\ UNCHANGED <<fnCall, dragVars, hosts>>
  \/ /\ PointerLeave
     /\ UNCHANGED <<fnCall, dragVars, hosts>>
  \/ /\ PointerLost
     /\ UNCHANGED <<fnCall, dragVars, hosts>>
  \/ /\ AutoDismissFire
     /\ UNCHANGED <<fnCall, dragVars, hosts>>
  \/ /\ LeaveFire
     /\ UNCHANGED <<fnCall, dragVars, hosts>>
  \/ /\ StrayLeaveFire
     /\ UNCHANGED <<fnCall, dragVars, hosts>>
  \/ /\ HideTimerFire
     /\ UNCHANGED <<fnCall, dragVars, hosts>>
  \/ /\ TipKeyDown
     /\ UNCHANGED <<fnCall, dragVars, hosts>>
  \/ /\ \E ok \in BOOLEAN : TipInitializeResume(ok)
     /\ UNCHANGED <<fnCall, dragVars, hosts>>
  \/ /\ NextTimeout
     /\ UNCHANGED <<fnCall, dragVars, hosts>>

\* the enabling condition of TipDebounceFire
DebounceDue ==
  IF debounceTimer = NULL THEN FALSE
  ELSE /\ debounceTimer.pending
       /\ debounceTimer.left = 0
       /\ CanSnapshot(selection, TRUE, currentVersion)

\* WF_vars(TipDebounceFire) written out over its enabling condition: the
\* debounce callback is not left due for ever
DebounceFair ==
  \/ []<>(~DebounceDue)
  \/ []<><<TipDebounceFire /\ UNCHANGED <<fnCall, dragVars, hosts>>>>_vars

TimerFairness ==
  /\ DebounceFair
  /\ WF_vars(AutoDismissFire /\ UNCHANGED <<fnCall, dragVars, hosts>>)
  /\ WF_vars(LeaveFire /\ UNCHANGED <<fnCall, dragVars, hosts>>)
  /\ WF_vars(StrayLeaveFire /\ UNCHANGED <<fnCall, dragVars, hosts>>)
  /\ WF_vars(HideTimerFire /\ UNCHANGED <<fnCall, dragVars, hosts>>)
  /\ WF_vars(NextTimeout /\ UNCHANGED <<fnCall, dragVars, hosts>>)

SpecTipFair == TipInit /\ [][TipHoverNext]_vars /\ TimerFairness

\* the same controller while another context (the options page, a synced
\* browser) stores settings, among them settings whose source zone the
\* runtime does not know
TipZoneChangeNext ==
  \/ TipZoneNext
  \/ /\ TipStorageChanged
     /\ UNCHANGED <<fnCall, dragVars, hosts>>
  \/ /\ \E value \in StoredAtStart \ {NULL} : TipExternalSave(value)
     /\ UNCHANGED <<fnCall, dragVars, hosts>>

SpecTipZoneChange == TipZoneInit /\ [][TipZoneChangeNext]_vars

(***************************************************************************)
(* C1: every emitted non-null snapshot has a version strictly greater than *)
(* the version of every snapshot emitted before it, and an emission of     *)
(* null leaves the tracker's version counter unchanged (both trackers).    *)
(***************************************************************************)
C1_EmissionStep(log, logNext, v, vNext) ==
  logNext.tick /= log.tick =>
    IF logNext.snap = NULL
    THEN vNext = v
    ELSE /\ logNext.snap.version > log.top
         /\ logNext.snap.version = vNext

C1_VersionsIncrease ==
  [][ /\ C1_EmissionStep(emitted, emitted', currentVersion, currentVersion')
      /\ C1_EmissionStep(phEmitted, phEmitted', phVersion, phVersion') ]_vars

\* a second non-null snapshot has been emitted after a null one, by each tracker
C1_Witness ==
  /\ emitted.snap /= NULL /\ emitted.snap.version = 2
  /\ phEmitted.snap /= NULL /\ phEmitted.snap.version = 2

(***************************************************************************)
(* C2: when tryParse is called again with a snapshot of the version it was *)
(* last called with, and no settings change lies between the two calls,    *)
(* the second call runs neither parseTime nor convertTime: it returns what *)
(* the first returned and leaves the cache as it was.                      *)
(***************************************************************************)
C2_SecondCall ==
  /\ lastCall /= NULL
  /\ currentSnapshot /= NULL
  /\ lastCall' /= NULL
  /\ lastCall'.op = "redeliver"
  /\ lastCall.version = currentSnapshot.version

C2_CacheIdempotent ==
  [][ C2_SecondCall =>
        /\ ~lastCall'.computed
        /\ lastCall'.ret = lastCall.ret
        /\ UNCHANGED <<lastParsedVersion, lastParseResult, lastParseFailureVersion,
                       parseAbortController, controllers>> ]_vars

C2_Witness ==
  /\ lastCall /= NULL
  /\ lastCall.op = "redeliver"
  /\ ~lastCall.computed
  /\ lastCall.ret /= NULL
  /\ lastCall.ret = lastParseResult

(***************************************************************************)
(* C3: a settings change that arrives while the current snapshot has been  *)
(* parsed successfully and is on display does not serve that snapshot from *)
(* the cache: the handler parses and converts it again under the new       *)
(* settings and shows the new result.                                      *)
(***************************************************************************)
C3_Displayed ==
  /\ currentSnapshot /= NULL
  /\ visible
  /\ panel /= NULL
  /\ lastParsedVersion = currentSnapshot.version
  /\ lastParseResult /= NULL

C3_Fresh(call, s) ==
  /\ call.computed
  /\ call.version = currentSnapshot.version
  /\ call.ret = ParseAndConvert(currentSnapshot, FALSE, s)

\* a step of handleSettingsUpdate or of the storage listener that keeps the
\* controller running
C3_SettingsChange ==
  /\ initialized /\ initialized'
  /\ loads' = loads
  /\ settings' /= settings \/ Len(notifications') < Len(notifications)

C3_BypassOnSettingsChange ==
  [][ (C3_Displayed /\ C3_SettingsChange) =>
        /\ lastCall' /= NULL
        /\ lastCall'.op = "settings"
        /\ C3_Fresh(lastCall', settings')
        /\ (lastCall'.ret /= NULL => panel'.currentResult = lastCall'.ret) ]_vars

C3_Witness ==
  /\ lastCall /= NULL
  /\ lastCall.op = "settings"
  /\ lastCall.computed
  /\ lastCall.ret /= NULL
  /\ lastCall.ret.target.zone = ZoneUTC
  /\ panel /= NULL
  /\ panel.currentResult = lastCall.ret

(***************************************************************************)
(* C4: after any settings change, whether it comes from a control of the   *)
(* panel or over the storage change channel, the next cache lookup         *)
(* computes: it is answered neither from the success slot nor from the     *)
(* known-failure slot.                                                     *)
(***************************************************************************)
C4_NextLookupRecomputes ==
  [][ (lastCall' /= NULL /\ (lastCall = NULL \/ lastCall'.op = "settings")) =>
        lastCall'.computed ]_vars

(***************************************************************************)
(* C5: right after a tryParse call that computed, the cache is either      *)
(* (version, the result returned, -1) or (-1, null, version); and the      *)
(* success version and the failure version are never both set.             *)
(***************************************************************************)
C5_SuccessForm(call) ==
  /\ call.ret /= NULL
  /\ lastParsedVersion = call.version
  /\ lastParseResult = call.ret
  /\ lastParseFailureVersion = -1

C5_FailureForm(call) ==
  /\ call.ret = NULL
  /\ lastParsedVersion = -1
  /\ lastParseResult = NULL
  /\ lastParseFailureVersion = call.version

C5_CacheSlots ==
  /\ (lastCall /= NULL /\ lastCall.computed) =>
       (C5_SuccessForm(lastCall) \/ C5_FailureForm(lastCall))
  /\ ~(lastParsedVersion /= -1 /\ lastParseFailureVersion /= -1)

C5_Witness ==
  /\ lastCall /= NULL
  /\ lastCall.computed
  /\ lastCall.version = 2
  /\ C5_FailureForm(lastCall)
  /\ lastGood /= NULL

(***************************************************************************)
(* C6: every AbortController other than the one of the latest attempt has  *)
(* been aborted; and a version written into the cache, and a result pushed *)
(* to the panel, belong to the newest snapshot delivered, never to an      *)
(* older one.                                                              *)
(***************************************************************************)
C6_PreviousAborted == controllers \subseteq {parseAbortController}

C6_WritesCurrent ==
  /\ lastParsedVersion' \in {lastParsedVersion, -1, emitted'.top}
  /\ lastParseFailureVersion' \in {lastParseFailureVersion, -1, emitted'.top}
  /\ (/\ panel /= NULL /\ panel' /= NULL
      /\ panel'.currentResult /= NULL
      /\ panel'.currentResult /= panel.currentResult) =>
       /\ lastCall' /= NULL
       /\ lastCall'.version = emitted'.top
       /\ panel'.currentResult = lastCall'.ret

C6_NoStaleWrites ==
  [](C6_PreviousAborted) /\ [][C6_WritesCurrent]_vars

C6_Witness ==
  /\ lastCall /= NULL
  /\ lastCall.computed
  /\ lastCall.version = 2
  /\ emitted.top = 2
  /\ lastCall.ret /= NULL
  /\ parseAbortController \in controllers
  /\ panel /= NULL
  /\ panel.currentResult = lastCall.ret

(***************************************************************************)
(* C7: whenever the panel displays a result, what it displays is the       *)
(* conversion of the most recent successfully parsed snapshot under the    *)
(* current settings.                                                       *)
(***************************************************************************)
C7_DisplayMatchesSettings ==
  (panel /= NULL /\ panel.html /= Empty /\ lastGood /= NULL) =>
    panel.html = render(ParseAndConvert(lastGood, FALSE, settings), settings)

(***************************************************************************)
(* C8: a snapshot that yields a usable result moves the tooltip controller *)
(* to PREVIEW, shows the tooltip and starts the 4000 ms auto-dismiss       *)
(* timer; while no pointer has entered and no other callback has run since *)
(* the show, the state is PREVIEW with the timer running until 4000 ms     *)
(* have passed, IDLE once the timer has fired, and never PINNED.           *)
(***************************************************************************)
C8_UsableSnapshot ==
  /\ debounceTimer /= NULL /\ debounceTimer.pending
  /\ debounceTimer' /= NULL /\ ~debounceTimer'.pending
  /\ currentSnapshot' /= NULL
  /\ lastParseResult' /= NULL
  /\ lastParsedVersion' = currentSnapshot'.version

C8_ShowStep ==
  C8_UsableSnapshot =>
    /\ state' = "PREVIEW"
    /\ autoDismissTimer' = <<AUTO_DISMISS_DELAY>>
    /\ IF tooltip' = NULL THEN FALSE
       ELSE tooltip'.visible /\ tooltip'.currentResult = lastParseResult'

C8_Undisturbed ==
  episode.stage = "shown" =>
    /\ state /= "PINNED"
    /\ episode.t < AUTO_DISMISS_DELAY =>
         /\ state = "PREVIEW"
         /\ tooltip.visible
         /\ autoDismissTimer = <<AUTO_DISMISS_DELAY - episode.t>>
    /\ episode.t = AUTO_DISMISS_DELAY =>
         \/ state = "PREVIEW" /\ autoDismissTimer = <<0>>
         \/ state = "IDLE" /\ autoDismissTimer = <<>> /\ ~tooltip.visible
    /\ episode.t > AUTO_DISMISS_DELAY =>
         /\ state = "IDLE"
         /\ autoDismissTimer = <<>>
         /\ ~tooltip.visible

C8_PreviewThenDismiss ==
  [](C8_Undisturbed) /\ [][C8_ShowStep]_vars

\* shown, left alone, and dismissed by the timer 100 ms ago
C8_Witness ==
  /\ episode.stage = "shown"
  /\ episode.t = AUTO_DISMISS_DELAY + 100
  /\ state = "IDLE"
  /\ pointers = 0

(***************************************************************************)
(* C9: a pointer entering the tooltip while the state is PREVIEW cancels   *)
(* the auto-dismiss timer and makes the state PINNED; in every reachable   *)
(* state with state = PINNED no auto-dismiss timer is pending.             *)
(***************************************************************************)
C9_EnterStep ==
  (state = "PREVIEW" /\ pointers' = pointers + 1) =>
    /\ state' = "PINNED"
    /\ autoDismissTimer' = <<>>

C9_PinnedHasNoAutoDismiss ==
  [](state = "PINNED" => autoDismissTimer = <<>>) /\ [][C9_EnterStep]_vars

\* pinned by a pointer that entered 1000 ms after the show
C9_Witness ==
  /\ episode.stage = "entered"
  /\ state = "PINNED"
  /\ pointers = 1
  /\ autoDismissTimer = <<>>

(***************************************************************************)
(* C10: in PINNED a pointer-leave starts the 300 ms grace timer; a pointer *)
(* that enters while it is pending cancels it and the state stays PINNED;  *)
(* when it fires the state becomes IDLE.  For show at 0, pointer-enter at  *)
(* 1000 ms and pointer-leave at 5000 ms the tooltip is still shown (and    *)
(* PINNED) before 5300 ms, so at 5200 ms, and is IDLE after, so by 5400.   *)
(***************************************************************************)
C10_LeaveStep ==
  (initialized /\ state = "PINNED" /\ pointers' = pointers - 1) =>
    /\ state' = "PINNED"
    /\ leaveTimer' = <<LEAVE_GRACE_PERIOD>>

C10_ReenterStep ==
  (state = "PINNED" /\ leaveTimer /= <<>> /\ pointers' = pointers + 1) =>
    /\ state' = "PINNED"
    /\ leaveTimer' = <<>>

\* the grace timeout's callback has run: it alone leaves pointers, the
\* debounce timeout and initialized as they were and clears a due leaveTimer
C10_FireStep ==
  (/\ state = "PINNED"
   /\ leaveTimer = <<0>>
   /\ leaveTimer' = <<>>
   /\ pointers' = pointers
   /\ debounceTimer' = debounceTimer
   /\ initialized') =>
    /\ state' = "IDLE"
    /\ ~tooltip'.visible

C10_ScenarioC ==
  /\ episode.stage = "entered" =>
       /\ state = "PINNED"
       /\ tooltip.visible
       /\ autoDismissTimer = <<>>
       /\ leaveTimer = <<>>
  /\ episode.stage = "left" =>
       /\ episode.t < 5000 + LEAVE_GRACE_PERIOD =>
            /\ state = "PINNED"
            /\ tooltip.visible
            /\ leaveTimer = <<5000 + LEAVE_GRACE_PERIOD - episode.t>>
       /\ episode.t = 5000 + LEAVE_GRACE_PERIOD =>
            \/ state = "PINNED" /\ tooltip.visible /\ leaveTimer = <<0>>
            \/ state = "IDLE" /\ ~tooltip.visible /\ leaveTimer = <<>>
       /\ episode.t > 5000 + LEAVE_GRACE_PERIOD =>
            /\ state = "IDLE"
            /\ ~tooltip.visible

C10_GracePeriod ==
  /\ [](C10_ScenarioC)
  /\ [][C10_LeaveStep /\ C10_ReenterStep /\ C10_FireStep]_vars

\* scenario C at 5400 ms: the grace timer has fired
C10_Witness ==
  /\ episode.stage = "left"
  /\ episode.t = 5400
  /\ state = "IDLE"

(***************************************************************************)
(* C11.  Dismissal always ends in IDLE                                     *)
(***************************************************************************)
\* the debounced tracker delivers a null snapshot to handleSelectionChange
NullSnapshotDelivered == TipDebounceFire /\ currentSnapshot' = NULL

\* one of the four dismissing callbacks runs
DismissalStep ==
  \/ NullSnapshotDelivered
  \/ TipKeyDown
  \/ TipScrollResize
  \/ TipVisibilityChange(TRUE)

\* C11: whatever the state was, a null selection snapshot, an Escape key, a
\* scroll or resize, or the document becoming hidden leaves the controller in
\* IDLE when its callback returns
C11_DismissalEndsIdle == [][DismissalStep => state' = "IDLE"]_vars

\* the selection was cleared while the tooltip was pinned under the pointer
C11_Witness ==
  /\ episode.stage = "cleared"
  /\ state = "IDLE"
  /\ pointers = 1
  /\ userEngaged
  /\ tooltip /= NULL
  /\ tooltip.displayed
  /\ ~tooltip.visible

(***************************************************************************)
(* C12.  Dismissal cancels the timers and the parse                        *)
(***************************************************************************)
\* neither timeout whose handle the hover module holds is pending
NoDismissTimer == autoDismissTimer = <<>> /\ leaveTimer = <<>>

\* the controller tryParse created last has been aborted and dropped
ParseAborted ==
  /\ parseAbortController' = 0
  /\ parseAbortController \notin controllers'

\* C12: when a null snapshot, Escape, a scroll or resize, or the document
\* becoming hidden takes the controller to IDLE, no auto-dismiss timer and no
\* grace timer is pending when the callback returns and the current
\* AbortController is aborted; so no dismiss timer is pending in IDLE
C12_DismissalCancels ==
  /\ [][DismissalStep /\ state /= "IDLE" => NoDismissTimer' /\ ParseAborted]_vars
  /\ [](state = "IDLE" => NoDismissTimer)

(***************************************************************************)
(* C13.  One timer of each kind                                            *)
(***************************************************************************)
\* the grace timeouts that are scheduled, with or without a handle
PendingGraceTimers == Len(leaveTimer) + Cardinality(strayLeaveTimers)

\* C13: at most one auto-dismiss timer and at most one grace timer is pending
\* at any time: starting a timer clears the previous one of its kind, so no
\* timeout whose handle was overwritten is left to fire
C13_OneTimerPerKind ==
  /\ Len(autoDismissTimer) <= 1
  /\ PendingGraceTimers <= 1

(***************************************************************************)
(* C14.  A hovered tooltip is not auto-dismissed                           *)
(***************************************************************************)
\* the auto-dismiss timeout's callback hides the tooltip
HiddenByAutoDismiss ==
  /\ AutoDismissFire
  /\ state /= "IDLE"
  /\ state' = "IDLE"

\* C14: once the pointer has entered the tooltip and for as long as it stays
\* inside, the auto-dismiss timer never hides the tooltip, whatever parseable
\* snapshots arrive meanwhile: only pointer-leave followed by the grace period,
\* or an explicit dismissal, hides it
C14_HoverKeepsTooltip == [][pointers > 0 => ~HiddenByAutoDismiss]_vars

(***************************************************************************)
(* C15.  A settings change from the overlay does not parse again           *)
(***************************************************************************)
\* a select of the overlay changes the target zone or the format preset
OverlaySettingsChange ==
  \/ \E z \in PanelZoneOptions, ok \in BOOLEAN :
       handleSettingsUpdate([defaultTargetZone |-> z], ok)
  \/ \E f \in PanelPresetOptions, ok \in BOOLEAN :
       handleSettingsUpdate([formatPreset |-> f], ok)

\* the handler's tryParse call, if it made one, ran parseTime
ParseTimeInvoked == IF lastCall = NULL THEN FALSE ELSE lastCall.computed

\* C15: changing the target zone or the format preset from a control of the
\* overlay re-renders it without parsing: the handling of the change does not
\* invoke parseTime again for the current snapshot
C15_NoReparse == [][OverlaySettingsChange => ~ParseTimeInvoked']_vars

(***************************************************************************)
(* The panel's position (part_002:29-146): loaded from localStorage when   *)
(* the panel is created, changed by dragging the handle, written back at   *)
(* the pointer-up that ends a drag.  Lengths are CSS pixels.               *)
(***************************************************************************)
PANEL_DEFAULT_TOP == 16
PANEL_DEFAULT_RIGHT == 16
PANEL_VIEWPORT_PADDING == 8

DefaultPosition == [top |-> PANEL_DEFAULT_TOP, right |-> PANEL_DEFAULT_RIGHT]

\* where the pointer may be, the sizes the window may have, the panel's box
Pointers == {[x |-> 0, y |-> 0], [x |-> 40, y |-> 0], [x |-> 300, y |-> 300]}
Viewports == {[width |-> 200, height |-> 300], [width |-> 100, height |-> 60]}
PanelRect == [width |-> 120, height |-> 80]

Max2(a, b) == IF a >= b THEN a ELSE b
Min2(a, b) == IF a <= b THEN a ELSE b

\* JSON.stringify of a Position: {"top":16,"right":16}
TopKey == <<"{", "\"", "t", "o", "p", "\"", ":">>
RightKey == <<",", "\"", "r", "i", "g", "h", "t", "\"", ":">>

JsonStringify(pos) ==
  TopKey \o NatToString(pos.top) \o RightKey \o NatToString(pos.right) \o <<"}">>

\* the digits of text from index i on
RECURSIVE DigitRun(_, _)
DigitRun(text, i) ==
  IF i <= Len(text) /\ IsDigit(text[i])
  THEN <<text[i]>> \o DigitRun(text, i + 1)
  ELSE <<>>

RECURSIVE StringToNat(_)
StringToNat(digits) ==
  IF Len(digits) = 1 THEN DigitValue(digits[1])
  ELSE 10 * StringToNat(SubSeq(digits, 1, Len(digits) - 1))
       + DigitValue(digits[Len(digits)])

HasAt(text, i, part) ==
  /\ i + Len(part) - 1 <= Len(text)
  /\ SubSeq(text, i, i + Len(part) - 1) = part

\* JSON.parse of the item: the object it denotes, or a SyntaxError
JsonParseFrom(text, top, right) ==
  IF /\ HasAt(text, 1, TopKey)
     /\ top /= <<>>
     /\ HasAt(text, Len(TopKey) + Len(top) + 1, RightKey)
     /\ right /= <<>>
     /\ Len(text) = Len(TopKey) + Len(top) + Len(RightKey) + Len(right) + 1
     /\ text[Len(text)] = "}"
  THEN [top |-> StringToNat(top), right |-> StringToNat(right)]
  ELSE Thrown("SyntaxError")

JsonParseTop(text, top) ==
  JsonParseFrom(text, top,
                DigitRun(text, Len(TopKey) + Len(top) + Len(RightKey) + 1))

JsonParse(text) == JsonParseTop(text, DigitRun(text, Len(TopKey) + 1))

\* loadPosition (part_002:34-42)
Parsed(value) == IF value = Thrown("SyntaxError") THEN DefaultPosition ELSE value

loadPosition(storage) ==
  IF ~storage.present THEN DefaultPosition
  ELSE IF storage.item = <<>> THEN DefaultPosition
  ELSE Parsed(JsonParse(storage.item))

\* savePosition (part_002:44-48): setItem throws when the quota is used up
savePosition(storage, pos) ==
  IF storage.full THEN storage
  ELSE [storage EXCEPT !.present = TRUE, !.item = JsonStringify(pos)]

\* variant: the position follows the pointer as it is
clampPosition_None(pos, rect, viewport) == pos

\* clampPosition (part_002:104-111)
clampPosition(pos, rect, viewport) ==
  [top |-> Max2(PANEL_VIEWPORT_PADDING,
                Min2(pos.top, viewport.height - rect.height - PANEL_VIEWPORT_PADDING)),
   right |-> Max2(PANEL_VIEWPORT_PADDING,
                  Min2(pos.right, viewport.width - rect.width - PANEL_VIEWPORT_PADDING))]

\* createPanel (part_002:50-88), as far as the position goes
DragCreatePanel ==
  /\ position = NULL
  /\ position' = loadPosition(localStorage)
  /\ isDragging' = FALSE
  /\ dragStart' = NoDragStart
  /\ hosts' = hosts + 1
  /\ UNCHANGED localStorage

\* destroy (part_002:349-353): the document listeners are removed
DragDestroy ==
  /\ position /= NULL
  /\ position' = NULL
  /\ isDragging' = FALSE
  /\ dragStart' = NoDragStart
  /\ hosts' = hosts - 1
  /\ UNCHANGED localStorage

\* handleDragStart (part_002:113-125); the handle is an empty element, so
\* the target is never inside a button, a select or an input
handleDragStart(clientX, clientY) ==
  /\ position /= NULL
  /\ isDragging' = TRUE
  /\ dragStart' = [x |-> clientX, y |-> clientY,
                   right |-> position.right, top |-> position.top]
  /\ UNCHANGED <<position, localStorage>>

\* handleDragMove (part_002:127-138)
Dragged(clientX, clientY) ==
  [top |-> dragStart.top + (clientY - dragStart.y),
   right |-> dragStart.right + (dragStart.x - clientX)]

handleDragMove(clientX, clientY, viewport) ==
  /\ position' = IF isDragging
                 THEN clampPosition(Dragged(clientX, clientY), PanelRect, viewport)
                 ELSE position
  /\ UNCHANGED <<isDragging, dragStart, localStorage>>

\* a pointermove on the document; the listener is there from handleDragStart
\* to handleDragEnd or destroy
PointerMove(clientX, clientY, viewport) ==
  /\ position /= NULL
  /\ IF isDragging
     THEN handleDragMove(clientX, clientY, viewport)
     ELSE UNCHANGED dragVars

\* variant: the position the drag started from is the one written
handleDragEnd_SavesStart ==
  /\ position /= NULL
  /\ isDragging
  /\ isDragging' = FALSE
  /\ localStorage' = savePosition(localStorage,
                                  [top |-> dragStart.top, right |-> dragStart.right])
  /\ UNCHANGED <<position, dragStart>>

\* handleDragEnd (part_002:140-146), the document's pointerup listener
handleDragEnd ==
  /\ position /= NULL
  /\ isDragging
  /\ isDragging' = FALSE
  /\ localStorage' = savePosition(localStorage, position)
  /\ UNCHANGED <<position, dragStart>>

\* a pointerup while nothing is dragged: no listener
PointerUp ==
  /\ position /= NULL
  /\ IF isDragging THEN handleDragEnd ELSE UNCHANGED dragVars

\* the page, which shares localStorage, uses up the quota or frees it
QuotaChanges ==
  /\ localStorage' = [localStorage EXCEPT !.full = ~@]
  /\ UNCHANGED <<position, isDragging, dragStart>>

\* the page removes the item, or writes it itself
PageItems == {[present |-> FALSE, item |-> <<>>],
              [present |-> TRUE, item |-> <<>>],
              [present |-> TRUE, item |-> <<"{", "}", "x">>]}

PageWritesItem(page) ==
  /\ localStorage' = [localStorage EXCEPT !.present = page.present,
                                          !.item = page.item]
  /\ UNCHANGED <<position, isDragging, dragStart>>

DragInit ==
  /\ fnCall = NoCall
  /\ DragIdle
  /\ hosts = 0
  /\ CtlIdle
  /\ TipIdle
  /\ selection = NoSelection
  /\ currentVersion = 0
  /\ debounceTimer = NULL
  /\ phVersion = 0
  /\ isPointerDown = FALSE
  /\ pendingSelectionChange = FALSE
  /\ tracking = FALSE
  /\ emitted = NoEmission
  /\ phEmitted = NoEmission

DragNext ==
  \/ /\ DragCreatePanel
     /\ UNCHANGED <<selVars, ctlVars, tipVars, fnCall>>
  \/ /\ DragDestroy
     /\ UNCHANGED <<selVars, ctlVars, tipVars, fnCall>>
  \/ /\ \E e \in Pointers : handleDragStart(e.x, e.y)
     /\ UNCHANGED <<selVars, ctlVars, tipVars, fnCall, hosts>>
  \/ /\ \E e \in Pointers, viewport \in Viewports : PointerMove(e.x, e.y, viewport)
     /\ UNCHANGED <<selVars, ctlVars, tipVars, fnCall, hosts>>
  \/ /\ PointerUp
     /\ UNCHANGED <<selVars, ctlVars, tipVars, fnCall, hosts>>
  \/ /\ QuotaChanges
     /\ UNCHANGED <<selVars, ctlVars, tipVars, fnCall, hosts>>
  \/ /\ \E page \in PageItems : PageWritesItem(page)
     /\ UNCHANGED <<selVars, ctlVars, tipVars, fnCall, hosts>>

SpecDrag == DragInit /\ [][DragNext]_vars

(***************************************************************************)
(* The parse library called on its own: fnCall holds one call of a         *)
(* function, drawn with its arguments at the start, and the value it       *)
(* returned once the call has been made.                                   *)
(***************************************************************************)
Call(fn, args) == [fn |-> fn, args |-> args, done |-> FALSE, ret |-> NULL]

Returned(value) == [fnCall EXCEPT !.done = TRUE, !.ret = value]

OtherOrigin == "https://example.com"

\* the offsets and abbreviations a parse can carry (<<>> = undefined)
FnOffsets == {<<>>, <<"+", "0", "5", ":", "3", "0">>, <<"-", "0", "8", ":", "0", "0">>}

FnAbbreviations == {<<>>, <<"P", "S", "T">>, <<"E", "S", "T">>, <<"X", "Y", "Z">>}

\* settings as the options page can have stored them
FnSettings ==
  { TIP_DEFAULT_SETTINGS,
    TipSettings(TRUE, ZoneUTC, ZoneLocal, "system", {}),
    TipSettings(TRUE, ZoneLocal, ZoneLocal, "system", {<<CurrentOrigin, ZoneTokyo>>}),
    TipSettings(TRUE, ZoneUTC, ZoneLocal, "system", {<<OtherOrigin, ZoneLondon>>}),
    TipSettings(TRUE, ZoneUTC, ZoneLocal, "system", {<<CurrentOrigin, <<>>>>}) }

FnOrigins == {"", CurrentOrigin, OtherOrigin}

ResolveCalls ==
  { Call("resolveSourceZone",
         [explicitOffset |-> o, abbreviation |-> a, settings |-> st, origin |-> g]) :
      o \in FnOffsets, a \in FnAbbreviations, st \in FnSettings, g \in FnOrigins }

ResolveLocalCalls ==
  { Call("resolveSourceZoneLocal", [explicitOffset |-> o, abbreviation |-> a]) :
      o \in FnOffsets, a \in FnAbbreviations }

ApplyResolveSourceZone ==
  /\ fnCall.fn = "resolveSourceZone"
  /\ ~fnCall.done
  /\ fnCall' = Returned(resolveSourceZoneFor(fnCall.args.explicitOffset,
                                             fnCall.args.abbreviation,
                                             fnCall.args.settings,
                                             fnCall.args.origin))
  /\ UNCHANGED <<selVars, ctlVars, tipVars, dragVars, hosts>>

ApplyResolveSourceZoneLocal ==
  /\ fnCall.fn = "resolveSourceZoneLocal"
  /\ ~fnCall.done
  /\ fnCall' = Returned(resolveSourceZoneLocal(fnCall.args.explicitOffset,
                                               fnCall.args.abbreviation))
  /\ UNCHANGED <<selVars, ctlVars, tipVars, dragVars, hosts>>

\* matched texts: what precedes the end, the timezone evidence at the end
\* and trailing white space
FnPrefixes == {<<"3", "p", "m", " ">>, <<"3", "p", "m", " ", "P", "S", "T", " ">>, <<"3", "p", "m", " ", "P", "S", "T">>, <<"3", "p", "m", " ", "+", "0", "5", ":", "3", "0", " ">>}

OffsetForms == {<<"+", "0", "5", ":", "3", "0">>, <<"-", "0", "8", ":", "0", "0">>, <<"+", "0", "5", "3", "0">>, <<"-", "1", "1", "4", "5">>,
                <<"Z">>, <<"z">>}

AbbreviationForms == {<<"P", "S", "T">>, <<"p", "s", "t">>, <<"E", "S", "T">>, <<"A", "B", "C">>,
                      <<"X", "Y", "Z">>, <<"P", "T">>}

FnTrails == {<<>>, <<" ">>}

ExtractCalls ==
  { Call("extractTimezoneInfo", [prefix |-> p, evidence |-> e, trail |-> t]) :
      p \in FnPrefixes, e \in {<<>>} \cup OffsetForms \cup AbbreviationForms,
      t \in FnTrails }

TextOf(a) == a.prefix \o a.evidence \o a.trail

ApplyExtractTimezoneInfo ==
  /\ fnCall.fn = "extractTimezoneInfo"
  /\ ~fnCall.done
  /\ fnCall' = Returned(extractTimezoneInfo(TextOf(fnCall.args)))
  /\ UNCHANGED <<selVars, ctlVars, tipVars, dragVars, hosts>>

\* the strings OFFSET_PATTERN's group matches: a sign, one or two hour
\* digits, a colon or none, two minute digits; or the letter Z
FnHours == {<<"0">>, <<"5">>, <<"8">>, <<"9">>, <<"0", "0">>, <<"0", "5">>, <<"0", "8">>, <<"1", "2">>, <<"1", "4">>, <<"2", "3">>}

FnMinutes == {<<"0", "0">>, <<"3", "0">>, <<"4", "5">>, <<"5", "9">>}

NumericOffset(sign, hours, colon, minutes) ==
  <<sign>> \o hours \o (IF colon THEN <<":">> ELSE <<>>) \o minutes

NormalizeCalls ==
  { Call("normalizeOffset", [sign |-> sg, hours |-> h, colon |-> c, minutes |-> m,
                             offset |-> NumericOffset(sg, h, c, m)]) :
      sg \in {"+", "-"}, h \in FnHours, c \in BOOLEAN, m \in FnMinutes }
  \cup { Call("normalizeOffset", [offset |-> <<z>>]) : z \in {"Z", "z"} }

ApplyNormalizeOffset ==
  /\ fnCall.fn = "normalizeOffset"
  /\ ~fnCall.done
  /\ fnCall' = Returned(normalizeOffset(fnCall.args.offset))
  /\ UNCHANGED <<selVars, ctlVars, tipVars, dragVars, hosts>>

\* the well-formed offsets: a sign, HH in 00..23, a colon, MM in 00..59
OffsetHours == 0..23

OffsetMinutes == 0..59

WellFormedOffset(sign, h, m) ==
  <<sign, DigitChar(h \div 10), DigitChar(h % 10), ":",
    DigitChar(m \div 10), DigitChar(m % 10)>>

RoundTripCalls ==
  { Call("minutesToOffset(offsetToMinutes)", [offset |-> WellFormedOffset(sg, h, m)]) :
      sg \in {"+", "-"}, h \in OffsetHours, m \in OffsetMinutes }

\* offsetToMinutes("-00:00") is -0 in the program, and -0 >= 0 holds: the
\* integer 0 stands for both zeros
ApplyOffsetRoundTrip ==
  /\ fnCall.fn = "minutesToOffset(offsetToMinutes)"
  /\ ~fnCall.done
  /\ fnCall' = Returned(minutesToOffset(offsetToMinutes(fnCall.args.offset)))
  /\ UNCHANGED <<selVars, ctlVars, tipVars, dragVars, hosts>>

\* selected texts put through parseTime and convertTime
FnTexts == {TextAbbrev, Text3pm, TextPadded, TextNoDate}

ConvertCalls ==
  { Call("convertTime(parseTime)", [text |-> t, settings |-> st, origin |-> g]) :
      t \in FnTexts, st \in FnSettings, g \in FnOrigins }

ApplyParseAndConvert ==
  /\ fnCall.fn = "convertTime(parseTime)"
  /\ ~fnCall.done
  /\ fnCall' = Returned(TipParseAndConvert(fnCall.args, FALSE, fnCall.args.settings))
  /\ UNCHANGED <<selVars, ctlVars, tipVars, dragVars, hosts>>

\* parse results handed to convertTime: the instant the parser returned and
\* at most one kind of timezone evidence
FnDates == {0, 900}

FnEvidence ==
  { <<o, a>> \in FnOffsets \X {<<>>, <<"P", "S", "T">>} : o = <<>> \/ a = <<>> }

FnParseResults ==
  { [date |-> d, matchedText |-> Text3pm, startIndex |-> 0, endIndex |-> 3,
     explicitOffset |-> e[1], abbreviation |-> e[2],
     hasExplicitTimezone |-> (e[1] /= <<>> \/ e[2] /= <<>>)] :
      d \in FnDates, e \in FnEvidence }

\* the parser wrapper of the panel build reports the offset in minutes
FnPanelParseResults ==
  { [date |-> d, matchedText |-> Text3pm, startIndex |-> 0, endIndex |-> 3,
     timezoneOffsetMinutes |-> e[2], hasExplicitTimezone |-> e[1]] :
      d \in FnDates,
      e \in {<<FALSE, <<>>>>, <<TRUE, <<>>>>, <<TRUE, <<330>>>>, <<TRUE, <<-480>>>>} }

\* settings whose source zone is an offset string (Settings.defaultSourceZone
\* and the values of perSiteSourceZone are strings, shared/storage.ts:166,176)
OffsetSourceSettings ==
  { TipSettings(TRUE, <<"+", "0", "5", ":", "3", "0">>, ZoneLocal, "system", {}),
    TipSettings(TRUE, ZoneLocal, ZoneUTC, "iso",
                {<<CurrentOrigin, <<"-", "0", "8", ":", "0", "0">>>>}) }

ConvertTimeCalls ==
  { Call("convertTime", [parseResult |-> r, settings |-> st, origin |-> g]) :
      r \in FnParseResults, st \in FnSettings \cup OffsetSourceSettings,
      g \in FnOrigins }

ConvertTimeLocalCalls ==
  { Call("convertTimeLocal", [parseResult |-> r, settings |-> st]) :
      r \in FnParseResults,
      st \in {DEFAULT_SETTINGS, PanelSettings({}, ZoneLA, "iso")} }

ConvertTimePanelCalls ==
  { Call("convertTimePanel", [parseResult |-> r, settings |-> st]) :
      r \in FnPanelParseResults,
      st \in {DEFAULT_SETTINGS, PanelSettings({}, ZoneLA, "iso")} }

\* convertTime of shared/types.ts:293-389
ApplyConvertTime ==
  /\ fnCall.fn = "convertTime"
  /\ ~fnCall.done
  /\ fnCall' = Returned(convertTimeFor(fnCall.args.parseResult, fnCall.args.settings,
                                       fnCall.args.origin))
  /\ UNCHANGED <<selVars, ctlVars, tipVars, dragVars, hosts>>

\* convertTime of content/parse/convert.ts:131-213
ApplyConvertTimeLocal ==
  /\ fnCall.fn = "convertTimeLocal"
  /\ ~fnCall.done
  /\ fnCall' = Returned(convertTimeLocal(fnCall.args.parseResult, fnCall.args.settings))
  /\ UNCHANGED <<selVars, ctlVars, tipVars, dragVars, hosts>>

\* convertTime of content/parse/convert.ts:15-99
ApplyConvertTimePanel ==
  /\ fnCall.fn = "convertTimePanel"
  /\ ~fnCall.done
  /\ fnCall' = Returned(convertTime(fnCall.args.parseResult, fnCall.args.settings))
  /\ UNCHANGED <<selVars, ctlVars, tipVars, dragVars, hosts>>

(***************************************************************************)
(* parseTime with everything it depends on as an argument                  *)
(* (shared/types.ts:135-185 for the tooltip build,                         *)
(* content/parse/timezone.ts:98-158 for the panel build): the signal's     *)
(* state at the call and after chrono.parse, and what chrono.parse does.   *)
(* ret = the value returned, called = chrono.parse was called.             *)
(***************************************************************************)
ParserReturn(called, value) == [called |-> called, ret |-> value]

\* the part after chrono.parse has returned its results
AfterChrono(build, trimmedText, results) ==
  IF build = "panel" THEN ParseTrimmed(trimmedText, results, FALSE)
  ELSE ChronoParseTrimmed(trimmedText, results, FALSE)

\* variant: the signal is not looked at again after chrono.parse
ParseCall_NoRecheck(build, trimmedText, abortedBefore, abortedAfter, throws, results) ==
  IF abortedBefore THEN ParserReturn(FALSE, NULL)
  ELSE IF trimmedText = <<>> THEN ParserReturn(FALSE, NULL)
  ELSE IF throws THEN ParserReturn(TRUE, NULL)
  ELSE ParserReturn(TRUE, AfterChrono(build, trimmedText, results))

ParseCall(build, trimmedText, abortedBefore, abortedAfter, throws, results) ==
  IF abortedBefore THEN ParserReturn(FALSE, NULL)
  ELSE IF trimmedText = <<>> THEN ParserReturn(FALSE, NULL)
  ELSE IF throws THEN ParserReturn(TRUE, NULL)
  ELSE IF abortedAfter THEN ParserReturn(TRUE, NULL)
  ELSE ParserReturn(TRUE, AfterChrono(build, trimmedText, results))

\* what chrono.parse can return: no match, one match, two matches
SecondMatch ==
  [text |-> Text3pm, index |-> 11, date |-> 15 * 60 - SystemOffset,
   tz |-> <<>>, tzCertain |-> FALSE]

FnMatches ==
  { <<>>, ChronoParse(Text3pm), ChronoParse(TextAbbrev),
    ChronoParse(TextAbbrev) \o <<SecondMatch>> }

\* a signal that is aborted stays aborted
FnSignals == {<<FALSE, FALSE>>, <<FALSE, TRUE>>, <<TRUE, TRUE>>}

ParseCalls ==
  { Call("parseTime", [build |-> b, text |-> t, abortedBefore |-> sg[1],
                       abortedAfter |-> sg[2], throws |-> th, results |-> rs]) :
      b \in {"tooltip", "panel"}, t \in {TextEmpty, TextBlank, TextPadded, TextAbbrev},
      sg \in FnSignals, th \in BOOLEAN, rs \in FnMatches }

ApplyParseTime ==
  /\ fnCall.fn = "parseTime"
  /\ ~fnCall.done
  /\ fnCall' = Returned(ParseCall(fnCall.args.build,
                                  Slice0(Trim(fnCall.args.text), 200),
                                  fnCall.args.abortedBefore, fnCall.args.abortedAfter,
                                  fnCall.args.throws, fnCall.args.results))
  /\ UNCHANGED <<selVars, ctlVars, tipVars, dragVars, hosts>>

\* formatTime on valid and invalid DateTimes, with the presets of the type,
\* presets outside it, and custom patterns: none, one that formats, one that
\* makes toFormat throw
FnDateTimes ==
  { DateTimeIn(900, ZoneLocal), DateTimeIn(0, ZoneUTC), DateTimeIn(900, ZoneUnknown) }

FnPresets ==
  FormatPresets \cup {"custom", "fancy", "toString", "constructor", "__proto__"}

FnPatterns == {<<>>, <<"f", "f">>, <<"'", "f">>}

FormatCalls ==
  { Call("formatTime", [dt |-> d, preset |-> pr, customFormat |-> cf]) :
      d \in FnDateTimes, pr \in FnPresets, cf \in FnPatterns }

ApplyFormatTime ==
  /\ fnCall.fn = "formatTime"
  /\ ~fnCall.done
  /\ fnCall' = Returned(formatTime(fnCall.args.dt, fnCall.args.preset,
                                   fnCall.args.customFormat))
  /\ UNCHANGED <<selVars, ctlVars, tipVars, dragVars, hosts>>

\* loadSettings and saveSettings over what the store holds and does
FnStoredValues ==
  { NULL, <<>>, [formatPreset |-> "iso"], [enabledSites |-> SiteOn],
    [defaultTargetZone |-> ZoneUTC, customFormat |-> <<"D">>],
    PanelSettings(SiteOn, ZoneUTC, "iso"),
    [enabled |-> FALSE], TipSettings(FALSE, ZoneUTC, ZoneLocal, "iso", {}) }

FnDefaults == {DEFAULT_SETTINGS, TIP_DEFAULT_SETTINGS}

LoadCalls ==
  { Call("loadSettings", [stored |-> v, ok |-> ok, defaults |-> d]) :
      v \in FnStoredValues, ok \in BOOLEAN, d \in FnDefaults }

SaveCalls ==
  { Call("saveSettings", [settings |-> v, ok |-> ok]) :
      v \in StoredSettings, ok \in BOOLEAN }

ApplyLoadSettings ==
  /\ fnCall.fn = "loadSettings"
  /\ ~fnCall.done
  /\ fnCall' = Returned(loadSettingsFrom(fnCall.args.stored, fnCall.args.ok,
                                         fnCall.args.defaults))
  /\ UNCHANGED <<selVars, ctlVars, tipVars, dragVars, hosts>>

ApplySaveSettings ==
  /\ fnCall.fn = "saveSettings"
  /\ ~fnCall.done
  /\ fnCall' = Returned(saveSettings(fnCall.args.settings, fnCall.args.ok))
  /\ UNCHANGED <<selVars, ctlVars, tipVars, dragVars, hosts>>

\* setEnabledForOrigin over the site tables a store can hold
FnSites ==
  { {}, SiteOn, {<<CurrentOrigin, FALSE>>}, {<<OtherOrigin, TRUE>>},
    {<<CurrentOrigin, TRUE>>, <<OtherOrigin, TRUE>>},
    {<<CurrentOrigin, FALSE>>, <<OtherOrigin, TRUE>>},
    {<<CurrentOrigin, TRUE>>, <<OtherOrigin, FALSE>>} }

FnSiteOrigins == {CurrentOrigin, OtherOrigin, "null"}

SetEnabledCalls ==
  { Call("setEnabledForOrigin",
         [settings |-> PanelSettings(sites, zone, "system"), origin |-> o, enabled |-> e]) :
      sites \in FnSites, zone \in {ZoneLocal, ZoneUTC}, o \in FnSiteOrigins,
      e \in BOOLEAN }

ApplySetEnabledForOrigin ==
  /\ fnCall.fn = "setEnabledForOrigin"
  /\ ~fnCall.done
  /\ fnCall' =
       [fnCall EXCEPT
          !.done = TRUE,
          !.ret = setEnabledForOrigin(fnCall.args.settings, fnCall.args.origin,
                                      fnCall.args.enabled),
          !.args.settings = ArgumentAfterSet(fnCall.args.settings, fnCall.args.origin,
                                             fnCall.args.enabled)]
  /\ UNCHANGED <<selVars, ctlVars, tipVars, dragVars, hosts>>

FnCalls ==
  LoadCalls \cup SaveCalls \cup SetEnabledCalls \cup
  FormatCalls \cup ParseCalls \cup ResolveCalls \cup ResolveLocalCalls \cup ExtractCalls \cup NormalizeCalls
  \cup RoundTripCalls \cup ConvertCalls
  \cup ConvertTimeCalls \cup ConvertTimeLocalCalls \cup ConvertTimePanelCalls

FnInit ==
  /\ DragIdle
  /\ hosts = 0
  /\ CtlIdle
  /\ TipIdle
  /\ selection = NoSelection
  /\ currentVersion = 0
  /\ debounceTimer = NULL
  /\ phVersion = 0
  /\ isPointerDown = FALSE
  /\ pendingSelectionChange = FALSE
  /\ tracking = FALSE
  /\ emitted = NoEmission
  /\ phEmitted = NoEmission
  /\ fnCall \in FnCalls

FnNext ==
  \/ ApplyResolveSourceZone
  \/ ApplyResolveSourceZoneLocal
  \/ ApplyExtractTimezoneInfo
  \/ ApplyNormalizeOffset
  \/ ApplyOffsetRoundTrip
  \/ ApplyParseAndConvert
  \/ ApplyConvertTime
  \/ ApplyConvertTimeLocal
  \/ ApplyConvertTimePanel
  \/ ApplyFormatTime
  \/ ApplyParseTime
  \/ ApplyLoadSettings
  \/ ApplySaveSettings
  \/ ApplySetEnabledForOrigin

SpecFn == FnInit /\ [][FnNext]_vars

(***************************************************************************)
(* C16.  resolveSourceZone: total, in strict precedence                    *)
(***************************************************************************)
IsKnownAbbreviation(a) == a /= <<>> /\ TIMEZONE_ABBREVIATIONS(a) /= <<>>

\* the per-site overrides recorded for an origin
Overrides(st, origin) ==
  {e[2] : e \in {x \in st.perSiteSourceZone : x[1] = origin /\ x[2] /= <<>>}}

HasOverride(a) ==
  /\ "settings" \in DOMAIN a
  /\ a.origin /= ""
  /\ Overrides(a.settings, a.origin) /= {}

GlobalDefault(a) ==
  IF "settings" \in DOMAIN a THEN a.settings.defaultSourceZone ELSE ZoneLocal

ResolvedInPrecedence(a, r) ==
  /\ r /= <<>>
  /\ r /= NULL
  /\ a.explicitOffset /= <<>> => r = a.explicitOffset
  /\ a.explicitOffset = <<>> /\ IsKnownAbbreviation(a.abbreviation) =>
       r = TIMEZONE_ABBREVIATIONS(a.abbreviation)
  /\ a.explicitOffset = <<>> /\ ~IsKnownAbbreviation(a.abbreviation) /\ HasOverride(a) =>
       r \in Overrides(a.settings, a.origin)
  /\ a.explicitOffset = <<>> /\ ~IsKnownAbbreviation(a.abbreviation) /\ ~HasOverride(a) =>
       r = GlobalDefault(a)

ResolvedFrom(info) ==
  resolveSourceZoneFor(info.explicitOffset, info.abbreviation, TIP_DEFAULT_SETTINGS,
                       CurrentOrigin)

OneEvidence(info) ==
  /\ info.explicitOffset = <<>> \/ info.abbreviation = <<>>
  /\ info.abbreviation /= <<>> => TIMEZONE_ABBREVIATIONS(info.abbreviation) /= <<>>
  /\ info.hasExplicitTimezone <=>
       (info.explicitOffset /= <<>> \/ info.abbreviation /= <<>>)

OffsetWins(info) ==
  /\ info.explicitOffset /= <<>>
  /\ info.abbreviation = <<>>
  /\ ResolvedFrom(info) = info.explicitOffset

PaddedOffset(a) ==
  IF "sign" \in DOMAIN a
  THEN <<a.sign>> \o PadStart2(a.hours) \o <<":">> \o a.minutes
  ELSE <<"+", "0", "0", ":", "0", "0">>

\* C18: for every string the offset pattern matches, normalizeOffset returns
\* the sign followed by the same hours, padded to two digits, a colon and the
\* same minutes (+5:30 gives +05:30, -800 gives -08:00); Z and z give +00:00
C18_NormalizedOffset ==
  (fnCall.fn = "normalizeOffset" /\ fnCall.done) =>
    fnCall.ret = PaddedOffset(fnCall.args)

(***************************************************************************)
(* C19.  Offsets survive the round trip through minutes                    *)
(***************************************************************************)
RoundTripDone == fnCall.fn = "minutesToOffset(offsetToMinutes)" /\ fnCall.done

MinusZero == <<"-", "0", "0", ":", "0", "0">>

PlusZero == <<"+", "0", "0", ":", "0", "0">>

\* C19 as stated: for every well-formed offset s (sign, HH in 00..23, MM in
\* 00..59), minutesToOffset(offsetToMinutes(s)) = s
C19_RoundTrip == RoundTripDone => fnCall.ret = fnCall.args.offset

\* C19 amended: the round trip returns s for every well-formed offset other
\* than -00:00, +00:00 and -23:59 included, and returns +00:00 for -00:00
C19_RoundTripButMinusZero ==
  RoundTripDone =>
    fnCall.ret = IF fnCall.args.offset = MinusZero THEN PlusZero
                 ELSE fnCall.args.offset

\* the boundary value -23:59 has made the round trip
C19_Witness ==
  /\ RoundTripDone
  /\ fnCall.args.offset = <<"-", "2", "3", ":", "5", "9">>
  /\ fnCall.ret = <<"-", "2", "3", ":", "5", "9">>

(***************************************************************************)
(* C20.  Scenarios A and B under default settings                          *)
(***************************************************************************)
ConvertedByDefault ==
  /\ fnCall.fn = "convertTime(parseTime)"
  /\ fnCall.done
  /\ fnCall.args.settings = TIP_DEFAULT_SETTINGS

SourceIs(result, zone, explicit) ==
  /\ result /= NULL
  /\ result.parsed.sourceZone = zone
  /\ result.parsed.sourceZoneExplicit = explicit

\* C20: with default settings and no per-site override, a parse whose only
\* timezone evidence is the abbreviation PST has the source zone
\* America/Los_Angeles and sourceZoneExplicit = true, and a parse without
\* timezone evidence has the source zone "local" and sourceZoneExplicit = false
C20_DefaultScenarios ==
  ConvertedByDefault =>
    /\ fnCall.args.text = TextAbbrev => SourceIs(fnCall.ret, ZoneLA, TRUE)
    /\ fnCall.args.text \in {Text3pm, TextPadded} => SourceIs(fnCall.ret, ZoneLocal, FALSE)

\* "3pm PST" has been parsed and converted under default settings
C20_Witness ==
  /\ ConvertedByDefault
  /\ fnCall.args.text = TextAbbrev
  /\ SourceIs(fnCall.ret, ZoneLA, TRUE)

(***************************************************************************)
(* C21.  An explicit offset relabels the instant, it does not shift it     *)
(***************************************************************************)
ConvertTimeDone ==
  fnCall.fn \in {"convertTime", "convertTimeLocal", "convertTimePanel"} /\ fnCall.done

\* the absolute instant of an ISO string: the wall clock less the offset
InstantOf(iso) == iso[1] - iso[2]

\* the offset zone a parse result carries, <<>> when it carries none
CarriedOffset(parseResult) ==
  IF "explicitOffset" \in DOMAIN parseResult THEN parseResult.explicitOffset
  ELSE IF parseResult.hasExplicitTimezone /\ parseResult.timezoneOffsetMinutes /= <<>>
  THEN minutesToOffset(parseResult.timezoneOffsetMinutes[1])
  ELSE <<>>

\* the conversions of a result next to the source time
Conversions(result) ==
  {result.local}
  \cup (IF "target" \in DOMAIN result THEN {result.target} ELSE {})
  \cup (IF "primary" \in DOMAIN result
        THEN {result.primary} \cup {result.targets[i] : i \in DOMAIN result.targets}
        ELSE {})

InstantKept(parseResult, result) ==
  /\ result /= NULL
  /\ InstantOf(result.parsed.isoString) = parseResult.date
  /\ \A c \in Conversions(result) : InstantOf(c.isoString) = parseResult.date
  /\ result.parsed.sourceZone = CarriedOffset(parseResult)

\* C21: when the parse result carries an explicit offset, the source time
\* convertTime produces, and with it the local and target conversions, has
\* the instant the parser returned; only its zone is the offset zone
C21_OffsetKeepsInstant ==
  (ConvertTimeDone /\ CarriedOffset(fnCall.args.parseResult) /= <<>>) =>
    InstantKept(fnCall.args.parseResult, fnCall.ret)

(***************************************************************************)
(* C22.  Without timezone evidence the wall clock is read in the resolved  *)
(* source zone                                                             *)
(***************************************************************************)
\* the parser's wall clock: the instant read in the machine's zone
ParserWallClock(parseResult) == parseResult.date + SystemOffset

\* a call of the settings-aware convertTime on a parse without timezone
\* evidence whose source zone resolves to something other than "local"
ZoneFromSettings ==
  /\ fnCall.fn = "convertTime"
  /\ fnCall.done
  /\ ~fnCall.args.parseResult.hasExplicitTimezone
  /\ resolveSourceZoneFor(<<>>, <<>>, fnCall.args.settings, fnCall.args.origin)
       \notin {ZoneLocal, <<>>}

\* the offset in minutes of a resolved source zone, named or +HH:MM
ResolvedOffset(zone) ==
  IF isOffset(zone) THEN FixedOffsetMinutes(zone) ELSE ZoneOffset(zone)[1]

Reinterpreted(parseResult, zone, result) ==
  /\ result /= NULL
  /\ result.parsed.sourceZone = zone
  /\ result.parsed.isoString[1] = ParserWallClock(parseResult)
  /\ InstantOf(result.parsed.isoString)
       = ParserWallClock(parseResult) - ResolvedOffset(zone)

\* C22: in the settings-aware convertTime, when the text has no explicit
\* timezone and the source zone resolved from the settings is a named zone or
\* an offset string, the source time read in that zone shows the parser's
\* local wall clock: its instant is the wall clock minus the zone's offset
C22_WallClockReinterpreted ==
  ZoneFromSettings =>
    Reinterpreted(fnCall.args.parseResult,
                  resolveSourceZoneFor(<<>>, <<>>, fnCall.args.settings,
                                       fnCall.args.origin),
                  fnCall.ret)

(***************************************************************************)
(* C23.  A parse miss and an invalid conversion end alike                  *)
(***************************************************************************)
\* parseTime returns null for the current snapshot
ParseMiss ==
  IF currentSnapshot = NULL THEN FALSE
  ELSE parseTimeChrono(currentSnapshot.text, FALSE) = NULL

\* parseTime returns a result and convertTime returns null for it
ConversionInvalid ==
  IF currentSnapshot = NULL THEN FALSE
  ELSE /\ parseTimeChrono(currentSnapshot.text, FALSE) /= NULL
       /\ TipParseAndConvert(currentSnapshot, FALSE, settings) = NULL

KnownFailure ==
  /\ lastParseFailureVersion = currentSnapshot.version
  /\ lastParsedVersion = -1
  /\ lastParseResult = NULL

NoOverlay ==
  /\ state = "IDLE"
  /\ IF tooltip = NULL THEN TRUE ELSE ~tooltip.visible

\* C23: once a snapshot has been delivered for which parseTime returns null,
\* or for which convertTime returns null, the controller is in the same
\* condition either way for as long as the snapshot is current: the
\* snapshot's version is the known failure, the success slot is empty, and
\* no tooltip is shown
C23_FailuresAlike == (ParseMiss \/ ConversionInvalid) => (KnownFailure /\ NoOverlay)

\* a text that parses was selected while the settings name an unknown source
\* zone: the tooltip that was on display has been hidden
C23_Witness ==
  /\ ConversionInvalid
  /\ KnownFailure
  /\ currentSnapshot.version = 2
  /\ state = "IDLE"
  /\ tooltip /= NULL
  /\ tooltip.displayed
  /\ ~tooltip.visible

(***************************************************************************)
(* C24.  formatTime falls back to the system preset                        *)
(***************************************************************************)
FormatDone == fnCall.fn = "formatTime" /\ fnCall.done

\* the call is one of those that are to yield the system preset's string: a
\* custom pattern that fails to format, no pattern, or an unknown preset
FallsBack(a) ==
  /\ a.dt.valid
  /\ \/ a.preset = "custom" /\ (a.customFormat = <<>> \/ ToFormatThrows(a.customFormat))
     \/ a.preset \notin FormatPresets \cup {"custom"}

FormattedOrFallback(a, r) ==
  /\ "thrown" \notin DOMAIN r
  /\ ~a.dt.valid => r.style = "Invalid date"
  /\ FallsBack(a) => r = PresetSystem(a.dt)

\* C24: formatTime never throws; for an invalid DateTime it returns
\* "Invalid date"; for preset custom with a pattern whose formatting fails,
\* for preset custom without a pattern, and for an unknown preset, it
\* returns the string the system preset produces for the same DateTime
C24_FormatFallback == FormatDone => FormattedOrFallback(fnCall.args, fnCall.ret)

(***************************************************************************)
(* C25.  parseTime: the ways to null, and the first match                  *)
(***************************************************************************)
ParseDone == fnCall.fn = "parseTime" /\ fnCall.done

\* the call returns before chrono.parse: aborted signal or empty trimmed text
ReturnsEarly(a) == a.abortedBefore \/ Trim(a.text) = <<>>

\* chrono.parse gives nothing to build on, or the signal was aborted meanwhile
ParserFails(a) == a.throws \/ a.results = <<>> \/ a.abortedAfter

\* the result built from a single match by the build's parseTime
BuiltFrom(a, match) ==
  AfterChrono(a.build, Slice0(Trim(a.text), 200), <<match>>)

ParseContract(a, r) ==
  /\ r.called <=> ~ReturnsEarly(a)
  /\ ReturnsEarly(a) \/ ParserFails(a) => r.ret = NULL
  /\ ~ReturnsEarly(a) /\ ~ParserFails(a) =>
       /\ r.ret /= NULL
       /\ r.ret = BuiltFrom(a, a.results[1])
       /\ r.ret.matchedText = a.results[1].text
       /\ r.ret.date = a.results[1].date

\* C25: parseTime returns null without calling the external parser when the
\* signal is already aborted or the trimmed text is empty; it returns null
\* when the parser returns no match or throws, and when the signal is found
\* aborted after the parser call; otherwise its result is built from the
\* first match only
C25_ParseTimeContract == ParseDone => ParseContract(fnCall.args, fnCall.ret)

\* the parser returned two matches and the result is the first one's
C25_Witness ==
  /\ ParseDone
  /\ Len(fnCall.args.results) = 2
  /\ fnCall.ret.called
  /\ fnCall.ret.ret /= NULL
  /\ fnCall.ret.ret.matchedText = TextAbbrev
  /\ fnCall.ret.ret.endIndex = Len(TextAbbrev)

(***************************************************************************)
(* C26.  When the tracker emits null, and what a snapshot's text is        *)
(***************************************************************************)
\* there is nothing to take a snapshot of
NothingSelected(sel) ==
  \/ ~sel.present
  \/ sel.collapsed
  \/ \A i \in 1..Len(sel.text) : IsSpace(sel.text[i])

ZeroExtent(sel) == sel.width = 0 /\ sel.height = 0

\* an emission of the tracker for the selection sel
EmissionFor(log, sel, anchored) ==
  /\ log.snap = NULL <=> (NothingSelected(sel) \/ (anchored /\ ZeroExtent(sel)))
  /\ log.snap /= NULL =>
       /\ log.snap.text /= <<>>
       /\ ~IsSpace(log.snap.text[1])
       /\ Len(log.snap.text) <= 200
       /\ log.snap.text = SubSeq(Trim(sel.text), 1, Len(log.snap.text))
       /\ Len(log.snap.text) = 200 \/ log.snap.text = Trim(sel.text)

\* C26: the tracker emits null exactly when there is no selection or range,
\* the selection is collapsed, its text is empty after trimming, or, in the
\* variant that anchors to the selection, the bounding rect has zero width
\* and zero height; an emitted snapshot has the trimmed text, non-empty and
\* cut to at most 200 characters
C26_NullOrBoundedText ==
  [][/\ emitted'.tick /= emitted.tick => EmissionFor(emitted', selection', TRUE)
     /\ phEmitted'.tick /= phEmitted.tick => EmissionFor(phEmitted', selection', FALSE)]_vars

\* a selection of 201 characters has been emitted cut to 200 by the
\* anchored tracker, and a selection without extent as null
C26_Witness ==
  /\ emitted.snap = NULL
  /\ emitted.tick = 1
  /\ ~NothingSelected(selection)
  /\ ZeroExtent(selection)
  /\ phEmitted.snap /= NULL
  /\ Len(phEmitted.snap.text) = 200

(***************************************************************************)
(* C27: debounce.  At most one debounce timeout is pending at any time;    *)
(* a selectionchange notification emits nothing and consumes no version,   *)
(* it only restarts the 50 ms timeout; an emission happens only when that  *)
(* timeout is due, 50 ms after the last notification, uses it up, and      *)
(* carries the snapshot of the selection at that moment.                   *)
(***************************************************************************)
DebounceTimers ==
  (IF debounceTimer /= NULL /\ debounceTimer.pending THEN 1 ELSE 0)
  + Cardinality(Strays(debounceTimer))

Notification == tracking /\ \E sel \in Selections : SelectionChange(sel)

NotificationOnlyRestarts ==
  /\ debounceTimer' = [pending |-> TRUE, left |-> DEBOUNCE_DELAY, strays |-> {}]
  /\ emitted' = emitted
  /\ currentVersion' = currentVersion

EmissionWhenDue ==
  /\ debounceTimer /= NULL
  /\ debounceTimer.pending
  /\ debounceTimer.left = 0
  /\ debounceTimer' /= NULL
  /\ ~debounceTimer'.pending
  /\ selection' = selection
  /\ emitted'.snap = createSnapshot(selection, TRUE, currentVersion).snap
  /\ currentVersion' \in {currentVersion, currentVersion + 1}
  /\ currentVersion' = currentVersion + 1 <=> emitted'.snap /= NULL

C27_Debounce ==
  /\ [](DebounceTimers <= 1)
  /\ [][Notification => NotificationOnlyRestarts]_vars
  /\ [][emitted'.tick /= emitted.tick => EmissionWhenDue]_vars
  /\ [][currentVersion' /= currentVersion => emitted'.tick /= emitted.tick]_vars

\* two notifications carrying text were delivered (the pointer-hold tracker,
\* which processes each at once, is at version 2) and the debounce tracker
\* has emitted once, at version 1, the selection as it was when the timeout ran
C27_Witness ==
  /\ tracking
  /\ phVersion = 2
  /\ currentVersion = 1
  /\ emitted.tick = 1
  /\ emitted.snap /= NULL
  /\ emitted.snap.version = 1
  /\ emitted.snap.text = Trim(selection.text)
  /\ debounceTimer /= NULL
  /\ ~debounceTimer.pending

(***************************************************************************)
(* C28: pointer-hold tracker.  From a pointerdown to the next pointerup    *)
(* nothing is emitted; the pointerup emits once if a selectionchange has   *)
(* arrived since the last pointerdown and nothing otherwise; a             *)
(* selectionchange arriving while no button is held is processed at once:  *)
(* it emits the snapshot of the new selection.                             *)
(***************************************************************************)
PhEmission == phEmitted'.tick /= phEmitted.tick

\* isPointerDown and pendingSelectionChange follow the events received
HeldFlags ==
  /\ handlePointerDown => isPointerDown' /\ ~pendingSelectionChange'
  /\ (isPointerDown /\ Notification) => isPointerDown' /\ pendingSelectionChange'
  /\ (isPointerDown /\ ~Notification /\ ~handlePointerDown
       /\ ~handlePointerUp /\ ~stopSelectionTracking)
       => /\ isPointerDown'
          /\ pendingSelectionChange' = pendingSelectionChange
  /\ ~isPointerDown => ~pendingSelectionChange

HeldSuppresses == (isPointerDown /\ ~handlePointerUp) => ~PhEmission

ReleaseFlushes ==
  handlePointerUp =>
    /\ PhEmission <=> pendingSelectionChange
    /\ PhEmission =>
         phEmitted'.snap = createSnapshot(selection, FALSE, phVersion).snap
    /\ ~isPointerDown'
    /\ ~pendingSelectionChange'

ProcessedAtOnce ==
  (Notification /\ ~isPointerDown) =>
    /\ PhEmission
    /\ phEmitted'.snap = createSnapshot(selection', FALSE, phVersion).snap

C28_PointerHold ==
  [][HeldFlags /\ HeldSuppresses /\ ReleaseFlushes /\ ProcessedAtOnce]_vars

\* the button is held and the selection changed at least 50 ms ago: the
\* debounce tracker has emitted it, the pointer-hold tracker holds it back
C28_Witness ==
  /\ tracking
  /\ isPointerDown
  /\ pendingSelectionChange
  /\ phEmitted = NoEmission
  /\ phVersion = 0
  /\ emitted.snap /= NULL
  /\ emitted.snap.text = Trim(selection.text)

(***************************************************************************)
(* C29: stopSelectionTracking clears the pending debounce timeout and      *)
(* resets isPointerDown and pendingSelectionChange; from its return until  *)
(* tracking is started again no observer callback runs, so a selection     *)
(* change that was waiting at teardown is never emitted.                   *)
(***************************************************************************)
NothingWaiting ==
  /\ DebounceTimers = 0
  /\ ~isPointerDown
  /\ ~pendingSelectionChange

StopClears ==
  stopSelectionTracking => (~tracking' /\ debounceTimer' = NULL /\ NothingWaiting')

SilentWhileStopped ==
  ~tracking => (emitted' = emitted /\ phEmitted' = phEmitted
                /\ currentVersion' = currentVersion /\ phVersion' = phVersion)

\* starting again brings back nothing of what was waiting
StartEmitsNothing ==
  startSelectionTracking => (NothingWaiting' /\ UNCHANGED <<emitted, phEmitted>>)

C29_StopIsFinal ==
  /\ [](~tracking => NothingWaiting)
  /\ [][StopClears /\ SilentWhileStopped /\ StartEmitsNothing]_vars

\* a selection change reached both trackers (the pointer-hold one emitted
\* it at once), tracking was stopped before the debounce timeout ran, then
\* started again: the debounce tracker has emitted nothing and waits for nothing
C29_Witness ==
  /\ tracking
  /\ phEmitted.snap /= NULL
  /\ phEmitted.snap.text = Trim(selection.text)
  /\ emitted = NoEmission
  /\ currentVersion = 0
  /\ debounceTimer = NULL

(***************************************************************************)
(* C30: fixed panel.  The panel shows a result only while a valid          *)
(* selection is active: once a null snapshot has been delivered            *)
(* (currentSnapshot is null) the visible flag is false and the panel       *)
(* shows no result.                                                        *)
(***************************************************************************)
PanelDisplaysResult == panel /= NULL /\ panel.visible /\ panel.html /= Empty

C30_HiddenWithoutSelection ==
  currentSnapshot = NULL => (~visible /\ ~PanelDisplaysResult)

(***************************************************************************)
(* C31: dragging the panel.  A pointer-down on the handle begins a drag;   *)
(* the position changes only in a pointer-move that comes after that       *)
(* pointer-down and before the next pointer-up; after every such move top  *)
(* and right are at least the padding of 8 px and, where the viewport      *)
(* leaves that much room, at most viewport size - panel size - padding.    *)
(***************************************************************************)
Room(size, own) == size - own - PANEL_VIEWPORT_PADDING

ClampedIn(pos, viewport) ==
  /\ pos.top >= PANEL_VIEWPORT_PADDING
  /\ pos.right >= PANEL_VIEWPORT_PADDING
  /\ Room(viewport.height, PanelRect.height) >= PANEL_VIEWPORT_PADDING
       => pos.top <= Room(viewport.height, PanelRect.height)
  /\ Room(viewport.width, PanelRect.width) >= PANEL_VIEWPORT_PADDING
       => pos.right <= Room(viewport.width, PanelRect.width)

DragBegins == (\E e \in Pointers : handleDragStart(e.x, e.y)) => isDragging'

\* isDragging is set from the pointer-down to the next pointer-up
DragLasts ==
  /\ (isDragging /\ ~PointerUp /\ ~DragDestroy) => isDragging'
  /\ (isDragging /\ PointerUp) => ~isDragging'
  /\ (~isDragging /\ isDragging') => \E e \in Pointers : handleDragStart(e.x, e.y)

MovesOnlyInDrag ==
  (position /= NULL /\ position' /= NULL /\ position' /= position)
    => /\ isDragging
       /\ isDragging'
       /\ \E e \in Pointers, viewport \in Viewports : PointerMove(e.x, e.y, viewport)

MovesAreClamped ==
  \A e \in Pointers, viewport \in Viewports :
    (isDragging /\ PointerMove(e.x, e.y, viewport)) => ClampedIn(position', viewport)

C31_DragClamped ==
  [][DragBegins /\ DragLasts /\ MovesOnlyInDrag /\ MovesAreClamped]_vars

\* a drag from the default position has followed the pointer 300 px to the
\* left and 300 px up: the panel stopped at the room a 200 px wide viewport
\* leaves on its right and at the padding from the top
C31_Witness ==
  /\ position /= NULL
  /\ isDragging
  /\ dragStart = [x |-> 300, y |-> 300, right |-> PANEL_DEFAULT_RIGHT,
                  top |-> PANEL_DEFAULT_TOP]
  /\ position.right = Room(200, PanelRect.width)
  /\ position.top = PANEL_VIEWPORT_PADDING

(***************************************************************************)
(* C32: the pointer-up that ends a drag persists the position: what        *)
(* loadPosition would return at the next creation of the panel equals the  *)
(* position at that pointer-up; a panel is created with the position       *)
(* loadPosition returns, the default 16/16 px when no item is stored or    *)
(* the item cannot be parsed; the Settings store is not touched.           *)
(***************************************************************************)
DragEnds == position /= NULL /\ isDragging /\ PointerUp

Unreadable(storage) ==
  IF ~storage.present THEN TRUE
  ELSE IF storage.item = <<>> THEN TRUE
  ELSE JsonParse(storage.item) = Thrown("SyntaxError")

CreatedWithLoaded ==
  DragCreatePanel =>
    /\ position' = loadPosition(localStorage)
    /\ Unreadable(localStorage) => position' = DefaultPosition

WritesOnlyAtDragEnd ==
  (localStorage'.item /= localStorage.item \/ localStorage'.present /= localStorage.present)
    => (DragEnds \/ \E page \in PageItems : PageWritesItem(page))

\* as stated: every pointer-up that ends a drag persists the position
C32_UpPersists ==
  [][/\ DragEnds => (loadPosition(localStorage') = position /\ stored' = stored)
     /\ CreatedWithLoaded]_vars

\* as the code has it: the write is lost when setItem throws
C32_UpPersistsIfWritten ==
  [][/\ (DragEnds /\ ~localStorage.full)
          => (loadPosition(localStorage') = position /\ stored' = stored)
     /\ (DragEnds /\ localStorage.full)
          => (localStorage' = localStorage /\ stored' = stored)
     /\ CreatedWithLoaded
     /\ WritesOnlyAtDragEnd]_vars

\* a panel was dragged to the lower right corner and released; it has been
\* destroyed, and the panel created after it is at that position
C32_Witness ==
  /\ position /= NULL
  /\ ~isDragging
  /\ dragStart = NoDragStart
  /\ position = [top |-> Room(300, PanelRect.height),
                 right |-> PANEL_VIEWPORT_PADDING]
  /\ localStorage.present
  /\ localStorage.item = JsonStringify(position)

(***************************************************************************)
(* C33: loadSettings returns a complete Settings record: the stored        *)
(* record's fields over the defaults for the rest, the defaults when       *)
(* nothing is stored, and the defaults, without throwing, when the read    *)
(* fails; saveSettings rejects to its caller when the write fails.         *)
(***************************************************************************)
LoadDone == fnCall.done /\ fnCall.fn = "loadSettings"

SaveDone == fnCall.done /\ fnCall.fn = "saveSettings"

FieldFrom(a, field) ==
  IF a.ok /\ ~Missing(a.stored) /\ field \in DOMAIN a.stored
  THEN a.stored[field]
  ELSE a.defaults[field]

CompleteSettings(a, r) ==
  /\ DOMAIN a.defaults \subseteq DOMAIN r
  /\ \A field \in DOMAIN a.defaults : r[field] = FieldFrom(a, field)
  /\ (~a.ok \/ Missing(a.stored)) => r = a.defaults

C33_LoadCompleteSaveRejects ==
  /\ LoadDone => CompleteSettings(fnCall.args, fnCall.ret)
  /\ SaveDone => (IF fnCall.args.ok THEN fnCall.ret = Resolved
                  ELSE fnCall.ret = Rejected("storage.sync.set"))

\* only formatPreset was stored: the record returned has it and the defaults
C33_Witness ==
  /\ LoadDone
  /\ fnCall.args.ok
  /\ fnCall.args.stored = [formatPreset |-> "iso"]
  /\ fnCall.args.defaults = DEFAULT_SETTINGS
  /\ fnCall.ret = PanelSettings({}, ZoneLocal, "iso")

(***************************************************************************)
(* C37: per-origin enablement.  For a settings record s, origins o and     *)
(* p /= o and a boolean e: isEnabledForOrigin(setEnabledForOrigin(s, o,    *)
(* e), o) = e, isEnabledForOrigin of the result and of s agree on p, the   *)
(* other fields of the result are those of s, and s itself is as it was.   *)
(***************************************************************************)
SetEnabledDone == fnCall.done /\ fnCall.fn = "setEnabledForOrigin"

EnablementSet(s, o, e, r) ==
  /\ isEnabledForOrigin(r, o) = e
  /\ \A p \in FnSiteOrigins \ {o} : isEnabledForOrigin(r, p) = isEnabledForOrigin(s, p)
  /\ DOMAIN r = DOMAIN s
  /\ \A field \in DOMAIN s \ {"enabledSites"} : r[field] = s[field]

C37_PerOriginEnablement ==
  [][ApplySetEnabledForOrigin =>
       /\ EnablementSet(fnCall.args.settings, fnCall.args.origin,
                        fnCall.args.enabled, fnCall'.ret)
       /\ fnCall'.args = fnCall.args]_vars

\* the current origin was switched off while the other one stays on
C37_Witness ==
  /\ SetEnabledDone
  /\ ~fnCall.args.enabled
  /\ fnCall.args.origin = CurrentOrigin
  /\ fnCall.args.settings.enabledSites
       = {<<CurrentOrigin, TRUE>>, <<OtherOrigin, TRUE>>}
  /\ fnCall.ret.enabledSites = {<<OtherOrigin, TRUE>>}
  /\ ~isEnabledForOrigin(fnCall.ret, CurrentOrigin)
  /\ isEnabledForOrigin(fnCall.ret, OtherOrigin)

(***************************************************************************)
(* C34: teardown resets the controller.  Once cleanup has returned (the    *)
(* controller is no longer initialized) the display state is IDLE, no      *)
(* dismiss timer is pending, no parse controller is live, currentSnapshot  *)
(* and both cache slots are cleared.                                       *)
(***************************************************************************)
CachesCleared ==
  /\ lastParsedVersion = -1
  /\ lastParseResult = NULL
  /\ lastParseFailureVersion = -1

C34_CleanupResets ==
  ~initialized =>
    /\ state = "IDLE"
    /\ autoDismissTimer = <<>>
    /\ leaveTimer = <<>>
    /\ parseAbortController = 0
    /\ currentSnapshot = NULL
    /\ CachesCleared

(***************************************************************************)
(* C35: the initialization guard prevents duplicate initialization.        *)
(* Whatever the order of the initial initialize() call, the notifications  *)
(* and the resumptions, createPanel is never called while the controller   *)
(* is initialized, and at most one panel exists at any time.               *)
(***************************************************************************)
C35_AtMostOnePanel == hosts <= 1

(***************************************************************************)
(* C40: in the fixed-panel content script, once every pending initialize() *)
(* has completed and every notification has been delivered, the controller *)
(* is initialized (panel created, selection tracking active) if and only   *)
(* if the most recently stored settings enable the current origin.         *)
(***************************************************************************)
QuietLife == loads = 0 /\ notifications = <<>>

StoredEnables == isEnabledForOrigin(loadSettings(TRUE), CurrentOrigin)

Running == initialized /\ panel /= NULL /\ tracking

Stopped == ~initialized /\ panel = NULL /\ ~tracking

MatchesStored == IF StoredEnables THEN Running ELSE Stopped

Settles ==
  /\ loads' < loads \/ Len(notifications') < Len(notifications)
  /\ QuietLife'

\* an initialize() resumes with the defaults although the store holds other settings
ReadFailed == loads' < loads /\ settings' /= loadSettings(TRUE)

TooltipShown == initialized /\ state \in {"PREVIEW", "PINNED"}

C36_ShownIsCachedSuccess ==
  TooltipShown =>
    IF tooltip = NULL \/ currentSnapshot = NULL \/ lastParseResult = NULL
    THEN FALSE
    ELSE /\ lastParsedVersion = currentSnapshot.version
         /\ tooltip.currentResult = lastParseResult

(***************************************************************************)
(* C38: in every reachable state of the tooltip variant in which the       *)
(* tooltip is shown (PREVIEW or PINNED) and the pointer is outside it, a   *)
(* dismiss timer (auto-dismiss or grace) is pending; under timer fairness  *)
(* a shown tooltip eventually returns to IDLE unless the pointer is inside *)
(* it.                                                                     *)
(***************************************************************************)
DismissTimerPending == autoDismissTimer /= <<>> \/ leaveTimer /= <<>>

ShownOutside == TooltipShown /\ pointers = 0

C38_ShownIsTimed ==
  /\ [](ShownOutside => DismissTimerPending)
  /\ TooltipShown ~> (state = "IDLE" \/ pointers > 0)

\* the pointer has been inside and has left: the grace timer runs
C38_Witness ==
  /\ state = "PINNED"
  /\ pointers = 0
  /\ userEngaged
  /\ autoDismissTimer = <<>>
  /\ leaveTimer = <<LEAVE_GRACE_PERIOD>>

(***************************************************************************)
(* C39: the overlay view's delayed hide never clobbers a later show.  When *)
(* show() has been called within the 150 ms window after hide(), the       *)
(* delayed callback leaves the overlay as it is (data-visible stays true,  *)
(* the state is not set to hidden); an overlay that is shown is on display.*)
(***************************************************************************)
OverlayShown == IF tooltip = NULL THEN FALSE ELSE tooltip.visible

HideCallbackRuns == 0 \in hideTimers /\ hideTimers' = hideTimers \ {0}

LateHideLeavesShown ==
  (OverlayShown /\ HideCallbackRuns) => (tooltip' = tooltip /\ tooltip'.displayed)

C39_HideSparesLaterShow ==
  /\ [](OverlayShown => tooltip.displayed)
  /\ [][LateHideLeavesShown]_vars

\* shown again while the timeout of the earlier hide is due
C39_Witness ==
  /\ OverlayShown
  /\ tooltip.displayed
  /\ state = "PREVIEW"
  /\ 0 \in hideTimers

====
